---- MODULE Spec2Model ----
(***************************************************************************)
(* Model of the Velocity template compiler of functionless: the shared     *)
(* walker VTL (src/src/vtl.ts), the API Gateway dialect APIGatewayVTL      *)
(* (src/src/api.ts) and the integration wrapper (src/src/integration.ts).  *)
(* Rendered text is kept as text: every emitted line is the string the     *)
(* code builds, so that quoting, naming and ordering can be checked.       *)
(***************************************************************************)
EXTENDS Integers, Sequences, FiniteSets, TLC

(***************************************************************************)
(* Sentinels.                                                              *)
(***************************************************************************)
\* the JavaScript value undefined, as a template literal prints it
Undef == "undefined"
\* no exception has been raised by the compilation
NoError == "none"
\* an optional node that is not there (node?.expr, _else, initialValue)
Absent == [kind |-> "Absent"]
\* a pre-rendered string handed where the code accepts string | Expr
Raw(s) == [kind |-> "string", value |-> s]

(***************************************************************************)
(* IR nodes.  A node is a record tagged by kind.  The parent link and the  *)
(* result of Identifier.lookup() are fixed when the tree is built, so      *)
(* they are carried as fields (parentKind, lookup, topLevel).              *)
(***************************************************************************)
NullLiteralExpr == [kind |-> "NullLiteralExpr"]
UndefinedLiteralExpr == [kind |-> "UndefinedLiteralExpr"]
BooleanLiteralExpr(value) == [kind |-> "BooleanLiteralExpr", value |-> value]
NumberLiteralExpr(value) == [kind |-> "NumberLiteralExpr", value |-> value]
StringLiteralExpr(value) == [kind |-> "StringLiteralExpr", value |-> value]
ArrayLiteralExpr(items) == [kind |-> "ArrayLiteralExpr", items |-> items]
SpreadElementExpr(expr) == [kind |-> "SpreadElementExpr", expr |-> expr]
ObjectLiteralExpr(properties) ==
  [kind |-> "ObjectLiteralExpr", properties |-> properties]
PropAssignExpr(name, expr) ==
  [kind |-> "PropAssignExpr", name |-> name, expr |-> expr]
SpreadAssignExpr(expr) == [kind |-> "SpreadAssignExpr", expr |-> expr]
ComputedPropertyNameExpr(expr) ==
  [kind |-> "ComputedPropertyNameExpr", expr |-> expr]
TemplateExpr(exprs) == [kind |-> "TemplateExpr", exprs |-> exprs]
\* lookup: what Identifier.lookup() resolves to
\*   "param0", "param1", "param2": ParameterDecl of the top-level FunctionDecl
\*   "fnparam": ParameterDecl of a nested FunctionExpr (a callback)
\*   "vartop": VariableStmt in the top-level scope; "var": nested VariableStmt
\*   "binding": BindingElem of a pattern; "none": nothing (a global)
Identifier(name, lookup) ==
  [kind |-> "Identifier", name |-> name, lookup |-> lookup]
PropAccessExpr(expr, name) ==
  [kind |-> "PropAccessExpr", expr |-> expr, name |-> name,
   parentKind |-> "Other"]
\* a property access that is the callee of a CallExpr
Callee(expr, name) ==
  [kind |-> "PropAccessExpr", expr |-> expr, name |-> name,
   parentKind |-> "CallExpr"]
ElementAccessExpr(expr, element) ==
  [kind |-> "ElementAccessExpr", expr |-> expr, element |-> element]
ReferenceExpr(name, isIntegration) ==
  [kind |-> "ReferenceExpr", name |-> name, isIntegration |-> isIntegration]
BinaryExpr(left, op, right) ==
  [kind |-> "BinaryExpr", left |-> left, op |-> op, right |-> right]
UnaryExpr(op, expr) == [kind |-> "UnaryExpr", op |-> op, expr |-> expr]
UnaryPostfixExpr(op, expr) ==
  [kind |-> "UnaryPostfixExpr", op |-> op, expr |-> expr]
ConditionExpr(when, then, else) ==
  [kind |-> "ConditionExpr", when |-> when, then |-> then, else |-> else]
Argument(expr, name) == [kind |-> "Argument", expr |-> expr, name |-> name]
CallExpr(expr, args) ==
  [kind |-> "CallExpr", expr |-> expr, args |-> args, parentKind |-> "Other"]
AwaitExpr(expr) == [kind |-> "AwaitExpr", expr |-> expr]
PromiseExpr(expr, parentKind) ==
  [kind |-> "PromiseExpr", expr |-> expr, parentKind |-> parentKind]
PromiseArrayExpr(expr) == [kind |-> "PromiseArrayExpr", expr |-> expr]
NewExpr(expr, args) == [kind |-> "NewExpr", expr |-> expr, args |-> args]
TypeOfExpr(expr) == [kind |-> "TypeOfExpr", expr |-> expr]
ParameterDecl(name) == [kind |-> "ParameterDecl", name |-> name]
FunctionExpr(parameters, body) ==
  [kind |-> "FunctionExpr", parameters |-> parameters, body |-> body]
FunctionDecl(parameters, body) ==
  [kind |-> "FunctionDecl", parameters |-> parameters, body |-> body]
BindingElem(name, rest, propertyName, initializer) ==
  [kind |-> "BindingElem", name |-> name, rest |-> rest,
   propertyName |-> propertyName, initializer |-> initializer]
ObjectBinding(bindings) == [kind |-> "ObjectBinding", bindings |-> bindings]
ArrayBinding(bindings) == [kind |-> "ArrayBinding", bindings |-> bindings]
BlockStmt(statements) == [kind |-> "BlockStmt", statements |-> statements]
ReturnStmt(expr) == [kind |-> "ReturnStmt", expr |-> expr]
ExprStmt(expr) == [kind |-> "ExprStmt", expr |-> expr]
IfStmt(when, then, else) ==
  [kind |-> "IfStmt", when |-> when, then |-> then, else |-> else]
ForOfStmt(variableDecl, expr, body) ==
  [kind |-> "ForOfStmt", variableDecl |-> variableDecl, expr |-> expr,
   body |-> body]
ForInStmt(variableDecl, expr, body) ==
  [kind |-> "ForInStmt", variableDecl |-> variableDecl, expr |-> expr,
   body |-> body]
\* name: Raw(identifier text) or a binding pattern
VariableStmt(name, expr, topLevel) ==
  [kind |-> "VariableStmt", name |-> name, expr |-> expr,
   topLevel |-> topLevel]
BreakStmt == [kind |-> "BreakStmt"]
ContinueStmt == [kind |-> "ContinueStmt"]
ThrowStmt(expr) == [kind |-> "ThrowStmt", expr |-> expr]
TryStmt == [kind |-> "TryStmt"]
CatchClause == [kind |-> "CatchClause"]
DoStmt == [kind |-> "DoStmt"]
WhileStmt == [kind |-> "WhileStmt"]
Err(error) == [kind |-> "Err", error |-> error]

StmtKinds ==
  {"BlockStmt", "ReturnStmt", "ExprStmt", "IfStmt", "ForOfStmt", "ForInStmt",
   "VariableStmt", "BreakStmt", "ContinueStmt", "ThrowStmt", "TryStmt",
   "CatchClause", "DoStmt", "WhileStmt"}
isStmt(a) == a.kind \in StmtKinds
isBindingPattern(a) == a.kind \in {"ObjectBinding", "ArrayBinding"}
isArrayBinding(a) == a.kind = "ArrayBinding"
isInTopLevelScope(node) == node.topLevel

(***************************************************************************)
(* Strings.                                                                *)
(***************************************************************************)
startsWith(s, prefix) ==
  /\ Len(s) >= Len(prefix)
  /\ SubSeq(s, 1, Len(prefix)) = prefix
\* String.prototype.slice(from) and slice(from, to), 0-based, to exclusive
slice(s, from) == SubSeq(s, from + 1, Len(s))
slice2(s, from, to) == SubSeq(s, from + 1, to)

RECURSIVE join(_, _)
join(strs, sep) ==
  IF Len(strs) = 0 THEN ""
  ELSE IF Len(strs) = 1 THEN strs[1]
  ELSE strs[1] \o sep \o join(Tail(strs), sep)

(***************************************************************************)
(* The compiler instance: its line buffer, its temp counter, the value     *)
(* the running call returns (out), the exception in flight (err), and,     *)
(* for the API Gateway dialect, location and the recorded integration.     *)
(* jsonCalls and requests count calls of json() and renderRequest(), and   *)
(* temps lists the names newLocalVarName has returned.                     *)
(***************************************************************************)
NewVTL(dialect, location) ==
  [statements |-> <<>>, varIt |-> 0, out |-> Undef, err |-> NoError,
   dialect |-> dialect, location |-> location, integration |-> Undef,
   jsonCalls |-> 0, requests |-> 0, temps |-> <<>>]

ret(st, value) == [st EXCEPT !.out = value]
throw(st, error) ==
  IF st.err # NoError THEN st ELSE [st EXCEPT !.err = error, !.out = Undef]

add(st, statement) ==
  IF st.err # NoError THEN st
  ELSE [st EXCEPT !.statements = Append(@, statement), !.out = Undef]

\* newLocalVarName, with the counter left where it is
newLocalVarNameStuck(st) ==
  IF st.err # NoError THEN st
  ELSE [st EXCEPT !.out = "$v" \o ToString(st.varIt + 1),
                  !.temps = Append(@, "$v" \o ToString(st.varIt + 1))]
newLocalVarName(st) ==
  IF st.err # NoError THEN st
  ELSE [st EXCEPT !.varIt = @ + 1, !.out = "$v" \o ToString(st.varIt + 1),
                  !.temps = Append(@, "$v" \o ToString(st.varIt + 1))]

str(value) == "'" \o value \o "'"

VTL_json(reference) == "$util.toJson(" \o reference \o ")"

qr(st, expr) == add(st, "$util.qr(" \o expr \o ")")

(***************************************************************************)
(* Backend hooks.                                                          *)
(***************************************************************************)
\* the templating (AppSync) dialect: top-level locals live in the stash,
\* a parameter of the top-level function is the $context root
AppsyncVTL_dereference(st, id) ==
  IF id.lookup = "vartop" THEN ret(st, "$context.stash." \o id.name)
  ELSE IF id.lookup \in {"param0", "param1", "param2"} THEN ret(st, "$context")
  ELSE IF startsWith(id.name, "$") THEN ret(st, id.name)
  ELSE ret(st, "$" \o id.name)

APIGatewayVTL_dereference(st, id) ==
  IF id.lookup \in {"var", "vartop"} THEN ret(st, "$" \o id.name)
  ELSE IF id.lookup = "param0" THEN ret(st, "$input.path('$')")
  ELSE IF id.lookup = "param1" THEN ret(st, "$context")
  ELSE IF id.lookup = "param2" THEN throw(st, "Error: unknown argument")
  ELSE IF startsWith(id.name, "$") THEN ret(st, id.name)
  ELSE ret(st, "$" \o id.name)

dereference(st, id) ==
  IF st.dialect = "api" THEN APIGatewayVTL_dereference(st, id)
  ELSE AppsyncVTL_dereference(st, id)

\* checks if this is a reference to the `$input` argument
isInputBody(expr) ==
  /\ expr.kind = "Identifier"
  /\ expr.lookup \in {"param0", "param1", "param2"}

\* CallExpr.getArgument(name)?.expr
RECURSIVE getArgumentFrom(_, _, _)
getArgumentFrom(args, name, i) ==
  IF i > Len(args) THEN Absent
  ELSE IF args[i].name = name THEN args[i].expr
  ELSE getArgumentFrom(args, name, i + 1)
getArgument(call, name) == getArgumentFrom(call.args, name, 1)

\* fn.parameters[i]?.name as a `$`-prefixed reference, or undefined
paramRef(fn, i) ==
  IF i <= Len(fn.parameters) /\ fn.parameters[i].name # ""
  THEN "$" \o fn.parameters[i].name
  ELSE Undef

\* [value, index, array] of the callback of a map or forEach call
getMapForEachArgs(call) ==
  LET fn == getArgument(call, "callbackfn")
  IN <<paramRef(fn, 1), paramRef(fn, 2), paramRef(fn, 3)>>

\* the line that opens a loop over list binding firstVariable
foreachHeader(firstVariable, list) ==
  "#foreach(" \o firstVariable \o " in " \o list \o ")"

\* the method a property access is rendered to
propName(node) ==
  IF node.name = "push" /\ node.parentKind = "CallExpr" THEN "addAll"
  ELSE node.name

(***************************************************************************)
(* Closures handed to ifStmt and foreach as bodies.                        *)
(***************************************************************************)
\* () => { this.set(reference, expr) }
SetBody(reference, expr) ==
  [kind |-> "closure", fn |-> "set", reference |-> reference, expr |-> expr]
\* () => { this.ifStmt(condition, () => { this.set(reference, expr) }) }
IfSetBody(condition, reference, expr) ==
  [kind |-> "closure", fn |-> "ifSet", condition |-> condition,
   reference |-> reference, expr |-> expr]
\* the body closure of a reduce call
ReduceBody(previousValue, previousTmp, callback) ==
  [kind |-> "closure", fn |-> "reduceBody", previousValue |-> previousValue,
   previousTmp |-> previousTmp, callback |-> callback]
\* the before-loop hooks of flattenListMapOperations
MapBefore == [kind |-> "mapBefore"]
ReduceBefore(initialValue, previousTmp) ==
  [kind |-> "reduceBefore", initialValue |-> initialValue,
   previousTmp |-> previousTmp]

(***************************************************************************)
(* Integrations and the wrapper that dispatches to their handlers.         *)
(***************************************************************************)
Backends == <<"appSyncVtl", "apiGWVtl", "asl", "eventBus", "native">>
\* the handler an integration of this kind defines for a backend
own(kind, backend) == kind \o "." \o backend
\* an integration: the handler of a backend is Undef when it is left out,
\* unhandledContext tells whether the hook is implemented
Integration(kind, handlers, unhandledContext) ==
  [defined |-> TRUE, kind |-> kind,
   appSyncVtl |-> IF "appSyncVtl" \in handlers THEN own(kind, "appSyncVtl") ELSE Undef,
   apiGWVtl |-> IF "apiGWVtl" \in handlers THEN own(kind, "apiGWVtl") ELSE Undef,
   asl |-> IF "asl" \in handlers THEN own(kind, "asl") ELSE Undef,
   eventBus |-> IF "eventBus" \in handlers THEN own(kind, "eventBus") ELSE Undef,
   native |-> IF "native" \in handlers THEN own(kind, "native") ELSE Undef,
   unhandledContext |-> unhandledContext]
\* no integration: undefined
NoIntegration ==
  [defined |-> FALSE, kind |-> Undef, appSyncVtl |-> Undef,
   apiGWVtl |-> Undef, asl |-> Undef, eventBus |-> Undef, native |-> Undef,
   unhandledContext |-> FALSE]
\* the error the hook of an integration returns
unhandledContext(kind, contextKind) ==
  "Custom: " \o kind \o " cannot be used in " \o contextKind

\* new IntegrationImpl(integration)
IntegrationImpl(integration) ==
  IF ~integration.defined
  THEN [err |-> "Error: Integrations cannot be undefined.", kind |-> Undef,
        integration |-> integration]
  ELSE [err |-> NoError, kind |-> integration.kind,
        integration |-> integration]

\* the outcome of an access: the handler, or the error thrown
Handler(value) == [err |-> NoError, value |-> value]
Thrown(error) == [err |-> error, value |-> Undef]

\* assertIntegrationDefined, handing back whatever the integration has
assertIntegrationDefinedNot(impl, contextKind, integration) ==
  Handler(integration)
assertIntegrationDefined(impl, contextKind, integration) ==
  IF integration # Undef THEN Handler(integration)
  ELSE IF impl.integration.unhandledContext
    THEN Thrown(unhandledContext(impl.kind, contextKind))
  ELSE Thrown("Error: " \o impl.kind \o " is not supported by context "
              \o contextKind \o ".")

appSyncVtl(impl) ==
  assertIntegrationDefined(impl, "Velocity Template",
                           impl.integration.appSyncVtl)
apiGWVtl(impl) ==
  assertIntegrationDefined(impl, "Velocity Template",
                           impl.integration.apiGWVtl)
\* asl(call, context): the handler is looked up under the kind of the
\* context and applied at once
asl(impl, contextKind) ==
  assertIntegrationDefined(impl, contextKind, impl.integration.asl)
eventBus(impl) ==
  assertIntegrationDefined(impl, "EventBus", impl.integration.eventBus)
native(impl) ==
  assertIntegrationDefined(impl, "Function", impl.integration.native)

\* the integrations the compiled functions refer to, by name
Referenced ==
  [both |-> Integration("Function", {"appSyncVtl", "apiGWVtl"}, FALSE),
   none |-> Integration("Table", {}, FALSE),
   hooked |-> Integration("EventBus", {"eventBus"}, TRUE),
   also |-> Integration("StepFunction", {"apiGWVtl", "asl"}, FALSE)]
\* ReferenceExpr.ref()
ref(expr) == Referenced[expr.name]

(***************************************************************************)
(* The walker.  Every operator takes the instance st and returns it with   *)
(* the lines it emitted, the temps it allocated and, in out, the string    *)
(* the method returns.  Template literals evaluate left to right.  A       *)
(* raised error (err) ends the call: nothing is emitted after it.          *)
(***************************************************************************)
failed(st) == st.err # NoError

RECURSIVE send(_, _, _)

set(st, reference, expr) ==
  LET s1 == IF expr.kind = "string" THEN ret(st, expr.value)
            ELSE send(st, "eval", <<expr, Undef>>)
  IN IF failed(s1) THEN s1
     ELSE ret(add(s1, "#set(" \o reference \o " = " \o s1.out \o ")"),
              reference)

var(st, expr) ==
  LET s1 == newLocalVarName(st)
  IN IF failed(s1) THEN s1 ELSE send(s1, "set", <<s1.out, expr>>)

put(st, objVar, name, expr) ==
  LET s1 == IF expr.kind = "string" THEN ret(st, expr.value)
            ELSE send(st, "eval", <<expr, Undef>>)
  IN IF failed(s1) THEN s1
     ELSE qr(s1, objVar \o ".put(" \o name \o ", " \o s1.out \o ")")

putAll(st, objVar, expr) ==
  LET s1 == send(st, "eval", <<expr, Undef>>)
  IN IF failed(s1) THEN s1
     ELSE qr(s1, objVar \o ".putAll(" \o s1.out \o ")")

printExpr(st, val) ==
  IF val.kind = "string" THEN ret(st, val.value) ELSE send(st, "eval", <<val,
        Undef>>)

printBody(st, body) ==
  IF isStmt(body) THEN send(st, "eval", <<body, Undef>>)
  ELSE IF body.kind = "string" THEN add(st, body.value)
  ELSE IF body.fn = "set" THEN send(st, "set", <<body.reference, body.expr>>)
  ELSE IF body.fn = "ifSet"
    THEN send(st, "ifStmt", <<Raw(body.condition), SetBody(body.reference,
          body.expr), Absent>>)
  ELSE send(st, "reduceBody", <<body>>)

\* ifStmt, with the block that has an else branch left open
ifStmtOpen(st, condition, body, elseBody) ==
  LET s1 == send(st, "printExpr", <<condition>>)
  IN IF failed(s1) THEN s1 ELSE
     LET s2 == send(add(s1, "#if(" \o s1.out \o ")"), "printBody", <<body>>)
     IN IF failed(s2) THEN s2 ELSE
        IF elseBody.kind # "Absent"
        THEN send(add(s2, "#else"), "printBody", <<elseBody>>)
        ELSE add(s2, "#end")
ifStmt(st, condition, body, elseBody) ==
  LET s1 == send(st, "printExpr", <<condition>>)
  IN IF failed(s1) THEN s1 ELSE
     LET s2 == send(add(s1, "#if(" \o s1.out \o ")"), "printBody", <<body>>)
     IN IF failed(s2) THEN s2 ELSE
        LET s3 == IF elseBody.kind # "Absent"
                  THEN send(add(s2, "#else"), "printBody", <<elseBody>>)
                  ELSE s2
        IN IF failed(s3) THEN s3 ELSE add(s3, "#end")

foreach(st, iterVar, iterValue, body) ==
  LET s3 ==
        IF iterVar.kind = "VariableStmt" THEN
          IF isBindingPattern(iterVar.name) THEN
            \* iterate into a temp variable, deconstruct from it
            LET s1 == newLocalVarName(st)
                tempVar == s1.out
                s2 == send(s1, "printExpr", <<iterValue>>)
            IN IF failed(s2) THEN s2
               ELSE send(add(s2, foreachHeader(tempVar, s2.out)),
                     "evaluateBindingPattern", <<iterVar.name, tempVar, "$">>)
          ELSE
            LET s1 == send(st, "printExpr", <<iterValue>>)
            IN IF failed(s1) THEN s1
               ELSE add(s1, foreachHeader("$" \o iterVar.name.value, s1.out))
        ELSE
          LET s1 == send(st, "printExpr", <<iterVar>>)
          IN IF failed(s1) THEN s1 ELSE
             LET s2 == send(s1, "printExpr", <<iterValue>>)
             IN IF failed(s2) THEN s2
                ELSE add(s2, foreachHeader(s1.out, s2.out))
  IN IF failed(s3) THEN s3 ELSE
     LET s4 == send(s3, "printBody", <<body>>)
     IN IF failed(s4) THEN s4 ELSE add(s4, "#end")

\* for (const stmt of statements) this.eval(stmt, returnVar)
evalEach(st, nodes, i, returnVar) ==
  IF i > Len(nodes) THEN ret(st, Undef)
  ELSE LET s1 == send(st, "eval", <<nodes[i], returnVar>>)
       IN IF failed(s1) THEN s1 ELSE send(s1, "evalEach", <<nodes, i + 1,
             returnVar>>)

\* nodes.map((n) => this.eval(n)).join(sep), appended to acc
evalJoin(st, nodes, i, sep, acc) ==
  IF i > Len(nodes) THEN ret(st, acc)
  ELSE LET s1 == send(st, "eval", <<nodes[i], Undef>>)
       IN IF failed(s1) THEN s1
          ELSE send(s1, "evalJoin", <<nodes, i + 1, sep,
                IF i = 1 THEN s1.out ELSE acc \o sep \o s1.out>>)

\* the items of an array literal that contains a spread, added to list
addItems(st, list, items, i) ==
  IF i > Len(items) THEN st
  ELSE LET spread == items[i].kind = "SpreadElementExpr"
           s1 == send(st, "eval", <<IF spread THEN items[i].expr ELSE items[i],
                 Undef>>)
       IN IF failed(s1) THEN s1
          ELSE send(qr(s1, list \o (IF spread THEN ".addAll(" ELSE ".add(")
                                   \o s1.out \o ")"), "addItems", <<list,
                                         items, i + 1>>)

evalArrayLiteralExpr(st, node) ==
  IF \A i \in 1..Len(node.items) : node.items[i].kind # "SpreadElementExpr"
  THEN LET s1 == send(st, "evalJoin", <<node.items, 1, ", ", "">>)
       IN IF failed(s1) THEN s1 ELSE ret(s1, "[" \o s1.out \o "]")
  ELSE \* contains a spread, e.g. [...i], so we will store in a variable
       LET s1 == send(st, "var", <<Raw("[]")>>)
           list == s1.out
           s2 == send(s1, "addItems", <<list, node.items, 1>>)
       IN IF failed(s2) THEN s2 ELSE ret(s2, list)

evalBinaryExpr(st, node) ==
  IF node.op = "in" THEN throw(st, "SynthError: Unexpected_Error")
  ELSE IF node.op = "=" THEN
    LET s1 == send(st, "eval", <<node.left, Undef>>)
    IN IF failed(s1) THEN s1 ELSE
       LET s2 == send(s1, "eval", <<node.right, Undef>>)
       IN IF failed(s2) THEN s2
          ELSE ret(send(s2, "set", <<s1.out, Raw(s2.out)>>), s1.out)
  ELSE IF node.op = "??" THEN
    LET s1 == newLocalVarName(st)
    IN IF failed(s1) THEN s1 ELSE
       LET s2 == send(s1, "var", <<node.left>>)
       IN IF failed(s2) THEN s2 ELSE
          LET s3 == send(s2, "ifStmt", <<Raw(s2.out), SetBody(s1.out,
                Raw(s2.out)), SetBody(s1.out, node.right)>>)
          IN IF failed(s3) THEN s3 ELSE ret(s3, s1.out)
  ELSE IF node.op \in {"+=", "-=", "*=", "/=", "%="} THEN
    \* the reference, then the two operands of the template literal
    LET s1 == send(st, "eval", <<node.left, Undef>>)
    IN IF failed(s1) THEN s1 ELSE
       LET s2 == send(s1, "eval", <<node.left, Undef>>)
       IN IF failed(s2) THEN s2 ELSE
          LET s3 == send(s2, "eval", <<node.right, Undef>>)
          IN IF failed(s3) THEN s3
             ELSE send(s3, "set", <<s1.out, Raw(s2.out \o " "
                   \o SubSeq(node.op, 1, 1) \o " "
                          \o s3.out)>>)
  ELSE
    LET s1 == send(st, "eval", <<node.left, Undef>>)
    IN IF failed(s1) THEN s1 ELSE
       LET s2 == send(s1, "eval", <<node.right, Undef>>)
       IN IF failed(s2) THEN s2
          ELSE send(s2, "var", <<Raw(s1.out \o " " \o node.op \o " "
                \o s2.out)>>)

\* the properties of an object literal, put into obj in source order
\* putProperties, from the last property to the first
putPropertiesBackwards(st, obj, properties, i) ==
  IF i > Len(properties) THEN st
  ELSE
    LET prop == properties[Len(properties) + 1 - i]
        s2 == IF prop.kind = "PropAssignExpr" THEN
                LET s1 == IF prop.name.kind = "Identifier"
                          THEN ret(st, str(prop.name.name))
                          ELSE send(st, "eval", <<prop.name, Undef>>)
                IN IF failed(s1) THEN s1
                   ELSE send(s1, "put", <<obj, s1.out, prop.expr>>)
              ELSE send(st, "putAll", <<obj, prop.expr>>)
    IN IF failed(s2) THEN s2
       ELSE send(s2, "putProperties", <<obj, properties, i + 1>>)
putProperties(st, obj, properties, i) ==
  IF i > Len(properties) THEN st
  ELSE
    LET prop == properties[i]
        s2 == IF prop.kind = "PropAssignExpr" THEN
                LET s1 == IF prop.name.kind = "Identifier"
                          THEN ret(st, str(prop.name.name))
                          ELSE send(st, "eval", <<prop.name, Undef>>)
                IN IF failed(s1) THEN s1
                   ELSE send(s1, "put", <<obj, s1.out, prop.expr>>)
              ELSE send(st, "putAll", <<obj, prop.expr>>)
    IN IF failed(s2) THEN s2
       ELSE send(s2, "putProperties", <<obj, properties, i + 1>>)

evalObjectLiteralExpr(st, node) ==
  LET s1 == send(st, "var", <<Raw("{}")>>)
  IN IF failed(s1) THEN s1 ELSE
     LET s2 == send(s1, "putProperties", <<s1.out, node.properties, 1>>)
     IN IF failed(s2) THEN s2 ELSE ret(s2, s1.out)

evalReturnStmt(st, node, returnVar) ==
  IF returnVar # Undef THEN
    LET s1 == send(st, "set", <<returnVar, node.expr>>)
    IN IF failed(s1) THEN s1 ELSE ret(s1, Undef)
  ELSE
    LET s1 == send(st, "set", <<"$context.stash.return__val", node.expr>>)
    IN IF failed(s1) THEN s1
       ELSE add(add(s1, "#set($context.stash.return__flag = true)"),
                "#return($context.stash.return__val)")

\* the spans of a template literal, rendered and appended to acc
templateSpans(st, exprs, i, returnVar, acc) ==
  IF i > Len(exprs) THEN ret(st, acc)
  ELSE IF exprs[i].kind = "StringLiteralExpr"
    THEN send(st, "templateSpans", <<exprs, i + 1, returnVar, acc
          \o exprs[i].value>>)
  ELSE
    LET s1 == send(st, "eval", <<exprs[i], returnVar>>)
    IN IF failed(s1) THEN s1
       ELSE IF startsWith(s1.out, "$")
       THEN send(s1, "templateSpans", <<exprs, i + 1, returnVar, acc \o "${"
             \o slice(s1.out, 1) \o "}">>)
       ELSE LET s2 == send(s1, "var", <<Raw(s1.out)>>)
            IN IF failed(s2) THEN s2
               ELSE send(s2, "templateSpans", <<exprs, i + 1, returnVar, acc
                     \o "${" \o slice(s2.out, 1) \o "}">>)

evalTemplateExpr(st, node, returnVar) ==
  LET s1 == send(st, "templateSpans", <<node.exprs, 1, returnVar, "">>)
  IN IF failed(s1) THEN s1 ELSE ret(s1, "\"" \o s1.out \o "\"")

evalUnaryExpr(st, node) ==
  IF node.op \in {"++", "--"} THEN
    LET s1 == send(st, "eval", <<node.expr, Undef>>)
    IN IF failed(s1) THEN s1 ELSE
       LET s2 == send(s1, "eval", <<node.expr, Undef>>)
       IN IF failed(s2) THEN s2 ELSE
          LET s3 == send(s2, "set", <<s1.out, Raw(s2.out \o " "
                            \o (IF node.op = "++" THEN "+" ELSE "-") \o " 1")>>)
          IN IF failed(s3) THEN s3 ELSE send(s3, "eval", <<node.expr, Undef>>)
  ELSE
    LET s1 == send(st, "eval", <<node.expr, Undef>>)
    IN IF failed(s1) THEN s1
       ELSE IF node.op = "-" THEN send(s1, "var", <<Raw("0 - " \o s1.out)>>)
       ELSE send(s1, "var", <<Raw(node.op \o s1.out)>>)

evalUnaryPostfixExpr(st, node) ==
  LET s1 == send(st, "var", <<node.expr>>)
  IN IF failed(s1) THEN s1 ELSE
     LET s2 == send(s1, "eval", <<node.expr, Undef>>)
     IN IF failed(s2) THEN s2 ELSE
        LET s3 == send(s2, "eval", <<node.expr, Undef>>)
        IN IF failed(s3) THEN s3 ELSE
           LET s4 == send(s3, "set", <<s2.out, Raw(s3.out \o " "
                             \o (IF node.op = "++" THEN "+" ELSE "-")
                             \o " 1")>>)
           IN IF failed(s4) THEN s4 ELSE ret(s4, s1.out)

evalVariableStmt(st, node) ==
  LET variablePrefix ==
        IF isInTopLevelScope(node) THEN "$context.stash." ELSE "$"
  IN IF isBindingPattern(node.name) THEN
       IF node.expr.kind = "Absent"
       THEN throw(st, "SynthError: Unexpected_Error")
       ELSE LET s1 == send(st, "var", <<node.expr>>)
            IN IF failed(s1) THEN s1 ELSE
               LET s2 == send(s1, "evaluateBindingPattern", <<node.name,
                     s1.out, variablePrefix>>)
               IN IF failed(s2) THEN s2 ELSE ret(s2, Undef)
     ELSE
       LET varName == variablePrefix \o node.name.value
       IN IF node.expr.kind # "Absent" THEN send(st, "set", <<varName,
             node.expr>>)
          ELSE ret(st, varName)

(***************************************************************************)
(* Binding pattern desugaring.                                             *)
(***************************************************************************)
\* pattern.bindings.find((binding) => binding?.rest), as an index (0: none)
restIndex(pattern) ==
  IF \E i \in 1..Len(pattern.bindings) :
       pattern.bindings[i].kind = "BindingElem" /\ pattern.bindings[i].rest
  THEN CHOOSE i \in 1..Len(pattern.bindings) :
         /\ pattern.bindings[i].kind = "BindingElem"
         /\ pattern.bindings[i].rest
         /\ \A j \in 1..(i - 1) :
              ~(pattern.bindings[j].kind = "BindingElem"
                /\ pattern.bindings[j].rest)
  ELSE 0

\* strip off the accessor patterns: `.a` -> a, `[x]` -> x
stripAccessor(p) ==
  IF startsWith(p, ".") THEN slice(p, 1) ELSE slice2(p, 1, Len(p) - 1)

\* restKeys, with no key excluded
restKeysNone(userProps) == "[]"
\* the exclusion list of an object rest:
\* `[${userProps.map(this.str).join(",")}]`
restKeys(userProps) ==
  "[" \o join([k \in 1..Len(userProps) |-> str(stripAccessor(userProps[k]))],
              ",") \o "]"

\* the accessor of one binding of a pattern: `[i]`, `.name` or `[expr]`
accessorOf(st, pattern, binding, i) ==
  IF isArrayBinding(pattern) THEN ret(st, "[" \o ToString(i - 1) \o "]")
  ELSE IF binding.propertyName.kind = "Identifier"
    THEN ret(st, "." \o binding.propertyName.name)
  ELSE IF binding.propertyName.kind = "StringLiteralExpr"
    THEN ret(st, "[" \o str(binding.propertyName.value) \o "]")
  ELSE IF binding.propertyName.kind # "Absent" THEN
    LET e == send(st, "eval", <<binding.propertyName, Undef>>)
    IN IF failed(e) THEN e ELSE ret(e, "[" \o e.out \o "]")
  ELSE IF binding.name.kind = "Identifier"
    THEN ret(st, "." \o binding.name.name)
  ELSE throw(st, "SynthError: Unexpected_Error")

\* the value one binding reads: target + accessor, defaulted through a temp
\* when the binding has an initializer
defaulted(st, binding, target, accessor) ==
  IF binding.initializer.kind = "Absent" THEN ret(st, target \o accessor)
  ELSE
    LET t == send(st, "var", <<Raw(target \o accessor)>>)
    IN IF failed(t) THEN t ELSE
       LET u == send(t, "ifStmt", <<Raw("!" \o t.out), SetBody(t.out,
             binding.initializer), Absent>>)
       IN IF failed(u) THEN u ELSE ret(u, t.out)

\* pattern.bindings.map(...): binds element i and the following ones;
\* out is the list of accessors of the bound (non-rest, non-omitted) elements
bindElements(st, pattern, target, variablePrefix, i, properties) ==
  IF i > Len(pattern.bindings) THEN ret(st, properties)
  ELSE
    LET binding == pattern.bindings[i]
    IN IF binding.kind = "Absent" \/ i = restIndex(pattern)
       THEN send(st, "bindElements", <<pattern, target, variablePrefix, i + 1,
             properties>>)
       ELSE
         LET s1 == send(st, "accessorOf", <<pattern, binding, i>>)
         IN IF failed(s1) THEN s1 ELSE
            LET s2 == send(s1, "defaulted", <<binding, target, s1.out>>)
            IN IF failed(s2) THEN s2 ELSE
               LET s3 == IF isBindingPattern(binding.name)
                         THEN send(s2, "evaluateBindingPattern",
                               <<binding.name, s2.out, variablePrefix>>)
                         ELSE send(s2, "set", <<variablePrefix
                               \o binding.name.name, Raw(s2.out)>>)
               IN IF failed(s3) THEN s3
                  ELSE send(s3, "bindElements", <<pattern, target,
                        variablePrefix, i + 1, Append(properties, s1.out)>>)

\* the rest element of an object pattern: the keys of target not bound by
\* name, copied into restTemp
objectRest(st, target, restTemp, properties) ==
  LET t1 == send(st, "set", <<restTemp, Raw("{}")>>)
  IN IF failed(t1) THEN t1 ELSE
     LET t2 == newLocalVarName(t1)
     IN IF failed(t2) THEN t2 ELSE
        LET t3 == send(t2, "var", <<Raw(restKeys(properties))>>)
        IN IF failed(t3) THEN t3
           ELSE send(t3, "foreach", <<Raw(t2.out), Raw(target \o ".keySet()"),
                 IfSetBody("!" \o t3.out \o ".contains(" \o t2.out
                                    \o ")",
                                  restTemp \o "[" \o t2.out \o "]",
                                  Raw(target \o "[" \o t2.out \o "]"))>>)

evaluateBindingPattern(st, pattern, target, variablePrefix) ==
  LET s1 == send(st, "bindElements", <<pattern, target, variablePrefix, 1,
        <<>>>>)
      r == restIndex(pattern)
  IN IF failed(s1) THEN s1
     ELSE IF r = 0 THEN ret(s1, Undef)
     ELSE
       LET rest == pattern.bindings[r]
           s2 == newLocalVarName(s1)
           restTemp == s2.out
           s3 == IF isArrayBinding(pattern) THEN
                   send(s2, "set", <<restTemp, Raw(target \o ".subList("
                           \o ToString(Len(pattern.bindings) - 1) \o ", "
                           \o target \o ".size())")>>)
                 ELSE send(s2, "objectRest", <<target, restTemp, s1.out>>)
       IN IF failed(s3) THEN s3 ELSE
          LET s4 == IF rest.name.kind = "Identifier" THEN
                      LET t == send(s3, "eval", <<rest.name, Undef>>)
                      IN IF failed(t) THEN t
                         ELSE send(t, "set", <<t.out, Raw(restTemp)>>)
                    ELSE send(s3, "evaluateBindingPattern", <<rest.name,
                          restTemp, "$">>)
          IN IF failed(s4) THEN s4 ELSE ret(s4, Undef)

(***************************************************************************)
(* List-operation fusion.                                                  *)
(***************************************************************************)
\* `#set(index = $foreach.index)` and `#set(array = list)`, when named
loopLocals(st, list, index, array) ==
  LET s1 == IF index # Undef
            THEN add(st, "#set(" \o index \o " = $foreach.index)")
            ELSE st
  IN IF array # Undef
     THEN add(s1, "#set(" \o array \o " = " \o list \o ")")
     ELSE s1

renderMapOrForEachBody(st, call, list, returnVariable, index, array) ==
  LET s2 == loopLocals(st, list, index, array)
      fn == getArgument(call, "callbackfn")
  IN IF failed(s2) THEN s2
     ELSE IF fn.kind # "FunctionExpr" THEN throw(s2, "Error: assertNodeKind")
     ELSE
       LET s3 == IF returnVariable # Undef THEN ret(s2, returnVariable)
                 ELSE newLocalVarName(s2)
       IN IF failed(s3) THEN s3 ELSE
          LET s4 == send(s3, "evalEach", <<fn.body.statements, 1, s3.out>>)
          IN IF failed(s4) THEN s4 ELSE ret(s4, s3.out)

\* the before-loop hook of a map/forEach call or of a reduce call
\* before, with the guard of a reduce without initial value left out
beforeUnguarded(st, hook, firstVariable, list) ==
  IF hook.kind = "mapBefore" THEN add(st, foreachHeader(firstVariable, list))
  ELSE
    LET s1 == IF hook.initialValue.kind # "Absent"
              THEN send(st, "set", <<hook.previousTmp, hook.initialValue>>)
              ELSE st
    IN IF failed(s1) THEN s1
       ELSE add(s1, foreachHeader(firstVariable, list))
before(st, hook, firstVariable, list) ==
  IF hook.kind = "mapBefore" THEN add(st, foreachHeader(firstVariable, list))
  ELSE
    LET s1 == IF hook.initialValue.kind # "Absent"
              THEN send(st, "set", <<hook.previousTmp, hook.initialValue>>)
              ELSE send(st, "ifStmt",
                    <<Raw(list \o ".isEmpty()"),
                      Raw("$util.error('Reduce of empty array with no "
                          \o "initial value')"),
                      Absent>>)
    IN IF failed(s1) THEN s1
       ELSE add(s1, foreachHeader(firstVariable, list))

\* flattenListMapOperations, flattening whatever alwaysEvaluate says
flattenListMapOperationsAll(st, expr, returnVariable, hook, alwaysEvaluate) ==
  IF /\ expr.kind = "CallExpr"
     /\ expr.expr.kind = "PropAccessExpr"
     /\ expr.expr.name = "map"
     /\ getArgument(expr, "callbackfn").kind = "FunctionExpr"
  THEN
    LET args == getMapForEachArgs(expr)
        s1 == send(st, "flattenListMapOperations", <<expr.expr.expr, args[1],
              hook, FALSE>>)
    IN IF failed(s1) THEN s1 ELSE
       LET s2 == send(s1, "renderMapOrForEachBody", <<expr, s1.out,
             returnVariable, args[2], args[3]>>)
       IN IF failed(s2) THEN s2 ELSE ret(s2, s1.out)
  ELSE
    LET s1 == send(st, "eval", <<expr, Undef>>)
    IN IF failed(s1) THEN s1 ELSE
       LET s2 == send(s1, "before", <<hook, returnVariable, s1.out>>)
       IN IF failed(s2) THEN s2 ELSE ret(s2, s1.out)
flattenListMapOperations(st, expr, returnVariable, hook, alwaysEvaluate) ==
  IF /\ ~alwaysEvaluate
     /\ expr.kind = "CallExpr"
     /\ expr.expr.kind = "PropAccessExpr"
     /\ expr.expr.name = "map"
  THEN
    IF getArgument(expr, "callbackfn").kind # "FunctionExpr"
    THEN throw(st, "Error: assertNodeKind")
    ELSE
      LET args == getMapForEachArgs(expr)
          s1 == send(st, "flattenListMapOperations", <<expr.expr.expr, args[1],
                hook, args[3] # Undef>>)
      IN IF failed(s1) THEN s1 ELSE
         LET s2 == send(s1, "renderMapOrForEachBody", <<expr, s1.out,
               returnVariable, args[2], args[3]>>)
         IN IF failed(s2) THEN s2 ELSE ret(s2, s1.out)
  ELSE
    LET s1 == send(st, "eval", <<expr, Undef>>)
    IN IF failed(s1) THEN s1 ELSE
       LET s2 == send(s1, "before", <<hook, returnVariable, s1.out>>)
       IN IF failed(s2) THEN s2 ELSE ret(s2, s1.out)

evalMapOrForEach(st, node) ==
  LET s1 == IF node.expr.name = "map" THEN send(st, "var", <<Raw("[]")>>)
            ELSE ret(st, Undef)
      newList == s1.out
  IN IF failed(s1) THEN s1
     ELSE IF getArgument(node, "callbackfn").kind # "FunctionExpr"
     THEN throw(s1, "Error: assertNodeKind")
     ELSE
       LET args == getMapForEachArgs(node)
           s2 == send(s1, "flattenListMapOperations", <<node.expr.expr,
                 args[1], MapBefore, args[3] # Undef>>)
       IN IF failed(s2) THEN s2 ELSE
          LET s3 == send(s2, "renderMapOrForEachBody", <<node, s2.out, Undef,
                args[2], args[3]>>)
          IN IF failed(s3) THEN s3 ELSE
             LET s4 == IF node.expr.name = "map"
                       THEN qr(s3, newList \o ".add(" \o s3.out \o ")")
                       ELSE s3
             IN ret(add(s4, "#end"),
                    IF newList # Undef THEN newList ELSE "$null")

\* reduceBody, with the result of the callback not stored back
reduceBodyForgetful(st, body) ==
  LET s1 == send(st, "set", <<body.previousValue, Raw(body.previousTmp)>>)
  IN IF failed(s1) THEN s1 ELSE
     LET s2 == newLocalVarName(s1)
     IN IF failed(s2) THEN s2 ELSE
        LET s3 == send(s2, "evalEach",
                       <<body.callback.body.statements, 1, s2.out>>)
        IN IF failed(s3) THEN s3 ELSE add(s3, "#end")
reduceBody(st, body) ==
  LET s1 == send(st, "set", <<body.previousValue, Raw(body.previousTmp)>>)
  IN IF failed(s1) THEN s1 ELSE
     LET s2 == newLocalVarName(s1)
     IN IF failed(s2) THEN s2 ELSE
        LET s3 == send(s2, "evalEach", <<body.callback.body.statements, 1,
              s2.out>>)
        IN IF failed(s3) THEN s3 ELSE
           LET s4 == send(s3, "set", <<body.previousTmp, Raw(s2.out)>>)
           IN IF failed(s4) THEN s4 ELSE add(s4, "#end")

\* the names a reduce call binds: out is <<previousValue, currentValue,
\* previousTmp>>
reduceNames(st, fn) ==
  LET s1 == IF paramRef(fn, 1) # Undef THEN ret(st, paramRef(fn, 1))
            ELSE newLocalVarName(st)
      s2 == IF paramRef(fn, 2) # Undef THEN ret(s1, paramRef(fn, 2))
            ELSE newLocalVarName(s1)
      s3 == newLocalVarName(s2)
  IN ret(s3, <<s1.out, s2.out, s3.out>>)

evalReduce(st, node) ==
  LET fn == getArgument(node, "callbackfn")
      initialValue == getArgument(node, "initialValue")
  IN IF fn.kind # "FunctionExpr" THEN throw(st, "Error: assertNodeKind")
     ELSE
       LET s3 == reduceNames(st, fn)
           previousValue == s3.out[1]
           currentValue == s3.out[2]
           previousTmp == s3.out[3]
           currentIndex == paramRef(fn, 3)
           array == paramRef(fn, 4)
       IN IF failed(s3) THEN s3 ELSE
          LET s4 == send(s3, "flattenListMapOperations", <<node.expr.expr,
                currentValue, ReduceBefore(initialValue, previousTmp),
                array # Undef>>)
          IN IF failed(s4) THEN s4 ELSE
             LET s6 == loopLocals(s4, s4.out, currentIndex, array)
                 body == ReduceBody(previousValue, previousTmp, fn)
                 s7 == IF initialValue.kind = "Absent"
                       THEN send(s6, "ifStmt", <<Raw("$foreach.index == 0"),
                             SetBody(previousTmp, Raw(currentValue)), body>>)
                       ELSE send(s6, "reduceBody", <<body>>)
             IN IF failed(s7) THEN s7 ELSE ret(s7, previousTmp)

evalCallExpr(st, node) ==
  IF node.expr.kind = "ReferenceExpr" THEN
    IF node.expr.isIntegration THEN
      LET serviceCall == IntegrationImpl(ref(node.expr))
      IN IF serviceCall.err # NoError THEN throw(st, serviceCall.err)
         ELSE send(st, "integrate", <<serviceCall, node>>)
    ELSE throw(st, "SynthError: Unexpected_Error")
  ELSE IF /\ node.expr.kind = "PropAccessExpr"
          /\ node.expr.name \in {"map", "forEach"}
    THEN send(st, "evalMapOrForEach", <<node>>)
  ELSE IF node.expr.kind = "PropAccessExpr" /\ node.expr.name = "reduce"
    THEN send(st, "evalReduce", <<node>>)
  ELSE
    \* the check for methods of `Promise` sits inside the branch taken for
    \* the names map, forEach and reduce, after the tests for these three
    \* names, so no call reaches it
    LET s1 == send(st, "eval", <<node.expr, Undef>>)
    IN IF failed(s1) THEN s1 ELSE
       LET s2 == send(s1, "evalJoin", <<node.args, 1, ", ", "">>)
       IN IF failed(s2) THEN s2
          ELSE ret(s2, s1.out \o "(" \o s2.out \o ")")

(***************************************************************************)
(* Integrations.                                                           *)
(***************************************************************************)
\* the request an integration renders for a call
renderRequest(st, call) ==
  [st EXCEPT !.requests = @ + 1, !.out = "<" \o call.expr.name \o ">"]

\* target.appSyncVtl.request(call, this)
AppsyncVTL_integrate(st, target, call) ==
  LET handler == appSyncVtl(target)
  IN IF handler.err # NoError THEN throw(st, handler.err)
     ELSE renderRequest(st, call)

\* APIGatewayVTL_integrate, recording the target before its request is
\* rendered
APIGatewayVTL_integrateEarly(st, target, call) ==
  IF st.location = "response"
  THEN throw(st,
    "SynthError: API_gateway_response_mapping_template_cannot_call_integration")
  ELSE LET handler == apiGWVtl(target)
           s0 == [st EXCEPT !.integration = target.kind]
       IN IF handler.err # NoError THEN throw(s0, handler.err)
          ELSE renderRequest(s0, call)
\* APIGatewayVTL_integrate, with the location not looked at
APIGatewayVTL_integrateAnywhere(st, target, call) ==
  LET handler == apiGWVtl(target)
  IN IF handler.err # NoError THEN throw(st, handler.err)
     ELSE LET s1 == renderRequest(st, call)
          IN [s1 EXCEPT !.integration = target.kind]
APIGatewayVTL_integrate(st, target, call) ==
  IF st.location = "response"
  THEN throw(st,
    "SynthError: API_gateway_response_mapping_template_cannot_call_integration")
  ELSE LET handler == apiGWVtl(target)
       IN IF handler.err # NoError THEN throw(st, handler.err)
          ELSE LET s1 == renderRequest(st, call)
               IN [s1 EXCEPT !.integration = target.kind]

integrate(st, target, call) ==
  IF failed(st) THEN st
  ELSE IF st.dialect = "api" THEN APIGatewayVTL_integrate(st, target, call)
  ELSE AppsyncVTL_integrate(st, target, call)

(***************************************************************************)
(* VTL.eval: the dispatch over the node kinds.                             *)
(***************************************************************************)
evalConditionExpr(st, node) ==
  LET s1 == newLocalVarName(st)
  IN IF failed(s1) THEN s1 ELSE
     LET s2 == send(s1, "ifStmt", <<node.when, SetBody(s1.out, node.then),
           SetBody(s1.out, node.else)>>)
     IN IF failed(s2) THEN s2 ELSE ret(s2, s1.out)

\* the return-variable argument of ifStmt is not used by it
evalIfStmt(st, node) ==
  LET s1 == send(st, "ifStmt", <<node.when, node.then, node.else>>)
  IN IF failed(s1) THEN s1 ELSE ret(s1, Undef)

evalExprStmt(st, node) ==
  LET s1 == send(st, "eval", <<node.expr, Undef>>)
  IN IF failed(s1) THEN s1 ELSE qr(s1, s1.out)

evalForStmt(st, node) ==
  LET s1 == send(st, "eval", <<node.expr, Undef>>)
  IN IF failed(s1) THEN s1 ELSE
     LET s2 == send(s1, "foreach", <<node.variableDecl, Raw(s1.out
           \o (IF node.kind = "ForInStmt"
                                      THEN ".keySet()" ELSE "")), node.body>>)
     IN IF failed(s2) THEN s2 ELSE ret(s2, Undef)

evalPropAccessExpr(st, node) ==
  LET s1 == send(st, "eval", <<node.expr, Undef>>)
  IN IF failed(s1) THEN s1 ELSE ret(s1, s1.out \o "." \o propName(node))

evalElementAccessExpr(st, node) ==
  LET s1 == send(st, "eval", <<node.expr, Undef>>)
  IN IF failed(s1) THEN s1 ELSE
     LET s2 == send(s1, "eval", <<node.element, Undef>>)
     IN IF failed(s2) THEN s2 ELSE ret(s2, s1.out \o "[" \o s2.out \o "]")

\* the rendered directive is returned to the caller and not added
evalThrowStmt(st, node) ==
  LET s1 == send(st, "eval", <<node.expr, Undef>>)
  IN IF failed(s1) THEN s1 ELSE ret(s1, "#throw(" \o s1.out \o ")")

\* evalPromiseExpr, with the parent not looked at
evalPromiseExprAnywhere(st, node) == send(st, "eval", <<node.expr, Undef>>)
evalPromiseExpr(st, node) ==
  IF node.parentKind \in {"AwaitExpr", "ReturnStmt"}
  THEN send(st, "eval", <<node.expr, Undef>>)
  ELSE throw(st,
         "SynthError: Integration_must_be_immediately_awaited_or_returned")

\* cannotEvaluate, returning nothing where the walker throws
cannotEvaluateSilently(st, node) == ret(st, Undef)
\* the end of eval, reached by the kinds whose branch is empty
cannotEvaluate(st, node) ==
  throw(st, "Error: cannot evaluate Expr kind: '" \o node.kind \o "'")

VTL_eval(st, node, returnVar) ==
  LET k == node.kind
  IN CASE k = "Absent" -> ret(st, "$null")
       [] k = "ArrayLiteralExpr" -> send(st, "evalArrayLiteralExpr", <<node>>)
       [] k = "BinaryExpr" -> send(st, "evalBinaryExpr", <<node>>)
       [] k = "BlockStmt" -> send(st, "evalEach", <<node.statements, 1, Undef>>)
       [] k = "BooleanLiteralExpr" ->
            ret(st, IF node.value THEN "true" ELSE "false")
       [] k = "BreakStmt" -> add(st, "#break")
       [] k = "CallExpr" -> send(st, "evalCallExpr", <<node>>)
       [] k = "ConditionExpr" -> send(st, "evalConditionExpr", <<node>>)
       [] k = "IfStmt" -> send(st, "evalIfStmt", <<node>>)
       [] k = "ExprStmt" -> send(st, "evalExprStmt", <<node>>)
       [] k \in {"ForInStmt", "ForOfStmt"} -> send(st, "evalForStmt", <<node>>)
       [] k = "FunctionExpr" -> send(st, "eval", <<node.body, Undef>>)
       [] k = "Identifier" -> dereference(st, node)
       [] k = "NewExpr" ->
            throw(st, "Error: NewExpr is not supported by Velocity Templates")
       [] k = "PropAccessExpr" -> send(st, "evalPropAccessExpr", <<node>>)
       [] k = "ElementAccessExpr" -> send(st, "evalElementAccessExpr", <<node>>)
       [] k \in {"NullLiteralExpr", "UndefinedLiteralExpr"} ->
            ret(st, "$null")
       [] k = "NumberLiteralExpr" -> ret(st, ToString(node.value))
       [] k = "ObjectLiteralExpr" -> send(st, "evalObjectLiteralExpr", <<node>>)
       [] k = "ComputedPropertyNameExpr" -> send(st, "eval", <<node.expr,
             Undef>>)
       [] k \in {"ParameterDecl", "ReferenceExpr", "PropAssignExpr"} ->
            throw(st, "Error: cannot evaluate Expr kind: '" \o k \o "'")
       [] k = "ReturnStmt" -> send(st, "evalReturnStmt", <<node, returnVar>>)
       [] k = "StringLiteralExpr" -> ret(st, str(node.value))
       [] k = "TemplateExpr" -> send(st, "evalTemplateExpr", <<node,
             returnVar>>)
       [] k = "UnaryExpr" -> send(st, "evalUnaryExpr", <<node>>)
       [] k = "UnaryPostfixExpr" -> send(st, "evalUnaryPostfixExpr", <<node>>)
       [] k = "VariableStmt" -> send(st, "evalVariableStmt", <<node>>)
       [] k = "ThrowStmt" -> send(st, "evalThrowStmt", <<node>>)
       [] k = "AwaitExpr" -> send(st, "eval", <<node.expr, Undef>>)
       [] k = "PromiseExpr" -> send(st, "evalPromiseExpr", <<node>>)
       [] k = "PromiseArrayExpr" ->
            throw(st, "SynthError: Unsupported_Use_of_Promises")
       [] k = "Err" -> throw(st, node.error)
       [] k = "Argument" -> send(st, "eval", <<node.expr, Undef>>)
       [] k \in {"BindingElem", "ObjectBinding", "ArrayBinding"} ->
            throw(st, "SynthError: Unexpected_Error")
       \* FunctionDecl, SpreadAssignExpr, SpreadElementExpr, TryStmt,
       \* CatchClause, ContinueStmt, DoStmt, TypeOfExpr, WhileStmt
       [] OTHER -> cannotEvaluate(st, node)

(***************************************************************************)
(* The API Gateway dialect.                                                *)
(***************************************************************************)
\* toJsonPath, with no access of an element
RECURSIVE toJsonPathOfProperties(_)
toJsonPathOfProperties(expr) ==
  IF isInputBody(expr) THEN "$"
  ELSE IF expr.kind = "Identifier" THEN Undef
  ELSE IF expr.kind = "PropAccessExpr" THEN
    IF expr.name = "data" /\ isInputBody(expr.expr) THEN "$"
    ELSE LET exprJsonPath == toJsonPathOfProperties(expr.expr)
         IN IF exprJsonPath # Undef THEN exprJsonPath \o "." \o expr.name
            ELSE Undef
  ELSE Undef
RECURSIVE toJsonPath(_)
toJsonPath(expr) ==
  IF isInputBody(expr) THEN "$"
  ELSE IF expr.kind = "Identifier" THEN Undef
  ELSE IF expr.kind = "PropAccessExpr" THEN
    IF expr.name = "data" /\ isInputBody(expr.expr) THEN "$"
    ELSE LET exprJsonPath == toJsonPath(expr.expr)
         IN IF exprJsonPath # Undef THEN exprJsonPath \o "." \o expr.name
            ELSE Undef
  ELSE IF /\ expr.kind = "ElementAccessExpr"
          /\ expr.element.kind = "NumberLiteralExpr" THEN
    LET exprJsonPath == toJsonPath(expr.expr)
    IN IF exprJsonPath # Undef
       THEN exprJsonPath \o "[" \o ToString(expr.element.value) \o "]"
       ELSE Undef
  ELSE Undef

APIGatewayVTL_json(reference) ==
  "#if(" \o reference \o " == $null)\nnull\n#elseif(" \o reference
  \o ".class.name === 'java.lang.String') \n\"$util.escapeJavaScript("
  \o reference \o ")\"\n#elseif(" \o reference
  \o ".class.name === 'java.lang.Integer' || " \o reference
  \o ".class.name === 'java.lang.Double' || " \o reference
  \o ".class.name === 'java.lang.Boolean') \n" \o reference
  \o " \n#else\n#set($context.responseOverride.status = 500)\n"
  \o "\"Internal Server Error - can only primitives to JSON\"\n#stop\n#end"

\* this.json(reference), counted
json(st, reference) ==
  IF failed(st) THEN st
  ELSE [st EXCEPT !.jsonCalls = @ + 1,
                  !.out = IF st.dialect = "api"
                          THEN APIGatewayVTL_json(reference)
                          ELSE VTL_json(reference)]

\* expr.items.map((item) => this.exprToJson(item)).join(`,`)
exprToJsonJoin(st, items, i, acc) ==
  IF i > Len(items) THEN ret(st, acc)
  ELSE LET s1 == send(st, "exprToJson", <<items[i]>>)
       IN IF failed(s1) THEN s1
          ELSE send(s1, "exprToJsonJoin", <<items, i + 1,
                IF i = 1 THEN s1.out ELSE acc \o "," \o s1.out>>)

\* one property of an object literal rendered as a JSON member
propertyToJson(st, prop) ==
  IF prop.kind = "PropAssignExpr" THEN
    IF prop.name.kind \in {"Identifier", "StringLiteralExpr"} THEN
      LET t == send(st, "exprToJson", <<prop.expr>>)
      IN IF failed(t) THEN t
         ELSE ret(t, "\"" \o (IF prop.name.kind = "Identifier"
                              THEN prop.name.name ELSE prop.name.value)
                     \o "\":" \o t.out)
    ELSE ret(st, "#stop")
  ELSE
    LET t1 == newLocalVarName(st)
        key == t1.out
    IN IF failed(t1) THEN t1 ELSE
       LET t2 == send(t1, "eval", <<prop.expr, Undef>>)
       IN IF failed(t2) THEN t2 ELSE
          LET t3 == json(t2, t2.out \o ".get(" \o key \o ")")
          IN ret(t3, "#foreach(" \o key \o " in " \o t2.out \o ".keySet())\""
                     \o key \o "\":" \o t3.out
                     \o "#if($foreach.hasNext),#end#end")

\* expr.properties.map(...).join(`,`)
propertiesToJson(st, properties, i, acc) ==
  IF i > Len(properties) THEN ret(st, acc)
  ELSE
    LET s1 == send(st, "propertyToJson", <<properties[i]>>)
    IN IF failed(s1) THEN s1
       ELSE send(s1, "propertiesToJson", <<properties, i + 1,
             IF i = 1 THEN s1.out ELSE acc \o "," \o s1.out>>)

\* $input.params() and $input.params('name') on the first parameter
paramsToJson(st, expr) ==
  IF Len(expr.args) = 0 \/ expr.args[1].expr.kind = "Absent" THEN
    LET s1 == newLocalVarName(st)
        key == s1.out
    IN ret(s1, "{#foreach(" \o key \o " in $input.params().keySet())\""
               \o key \o "\": \"$input.params(\"" \o key
               \o "\")\"#if($foreach.hasNext),#end#end}")
  ELSE IF /\ Len(expr.args) = 1
          /\ expr.args[1].expr.kind = "StringLiteralExpr" THEN
    IF expr.parentKind = "NumberArgument"
    THEN ret(st, "$input.params('" \o expr.args[1].expr.value \o "')")
    ELSE ret(st, "\"$input.params('" \o expr.args[1].expr.value \o "')\"")
  ELSE throw(st, "Error: unsupported expression")

callToJson(st, expr) ==
  IF expr.expr.kind = "ReferenceExpr" THEN
    IF expr.expr.isIntegration THEN
      LET serviceCall == IntegrationImpl(ref(expr.expr))
      IN IF serviceCall.err # NoError THEN throw(st, serviceCall.err)
         ELSE send(st, "integrate", <<serviceCall, expr>>)
    ELSE throw(st, "SynthError: Unexpected_Error")
  ELSE IF expr.expr.kind = "Identifier" /\ expr.expr.name = "Number"
    THEN send(st, "exprToJson",
          <<IF Len(expr.args) > 0 THEN expr.args[1] ELSE Absent>>)
  ELSE IF /\ expr.expr.kind = "PropAccessExpr"
          /\ expr.expr.name = "params"
          /\ expr.expr.expr.kind = "Identifier"
          /\ expr.expr.expr.lookup = "param0"
    THEN send(st, "paramsToJson", <<expr>>)
  ELSE throw(st, "Error: unsupported expression")

exprToJson(st, expr) ==
  LET k == expr.kind
      jsonPath == toJsonPath(expr)
  IN CASE failed(st) -> st
       [] jsonPath # Undef -> ret(st, "$input.json('" \o jsonPath \o "')")
       [] k \in {"NullLiteralExpr", "UndefinedLiteralExpr"} -> ret(st, "null")
       [] k = "BooleanLiteralExpr" ->
            ret(st, IF expr.value THEN "true" ELSE "false")
       [] k = "NumberLiteralExpr" -> ret(st, ToString(expr.value))
       [] k = "StringLiteralExpr" -> ret(st, "\"" \o expr.value \o "\"")
       [] k = "ArrayLiteralExpr" ->
            IF Len(expr.items) = 0 THEN ret(st, "[]")
            ELSE LET s1 == send(st, "exprToJsonJoin", <<expr.items, 1, "">>)
                 IN IF failed(s1) THEN s1 ELSE ret(s1, "[" \o s1.out \o "]")
       [] k = "Argument" ->
            IF expr.expr.kind # "Absent" THEN send(st, "exprToJson",
                  <<expr.expr>>)
            ELSE throw(st, "Error: unsupported expression")
       [] k = "CallExpr" -> send(st, "callToJson", <<expr>>)
       \* an element access that is no path: toJsonPath(expr) is called
       \* again for nothing and control leaves the chain for the final throw
       [] k = "ElementAccessExpr" ->
            throw(st, "Error: unsupported expression")
       [] k = "ObjectLiteralExpr" ->
            IF Len(expr.properties) = 0 THEN ret(st, "{}")
            ELSE LET s1 == send(st, "propertiesToJson", <<expr.properties, 1,
                  "">>)
                 IN IF failed(s1) THEN s1 ELSE ret(s1, "{" \o s1.out \o "}")
       [] k = "PromiseExpr" ->
            IF expr.parentKind \in {"AwaitExpr", "ReturnStmt"}
            THEN send(st, "exprToJson", <<expr.expr>>)
            ELSE throw(st,
              "SynthError: Integration_must_be_immediately_awaited_or_returned")
       [] k = "AwaitExpr" -> send(st, "exprToJson", <<expr.expr>>)
       \* a computation that cannot be expressed as JSON Path
       [] OTHER -> LET s1 == send(st, "eval", <<expr, Undef>>)
                   IN IF failed(s1) THEN s1 ELSE json(s1, s1.out)

APIGatewayVTL_eval(st, node, returnVar) ==
  IF node.kind = "ReturnStmt" THEN
    LET s1 == send(st, "exprToJson", <<node.expr>>)
    IN IF failed(s1) THEN s1 ELSE add(s1, s1.out)
  ELSE IF /\ node.kind = "PropAccessExpr"
          /\ isInputBody(node.expr)
          /\ node.name = "data"
    THEN ret(st, "$input.path('$')")
  ELSE send(st, "VTL_eval", <<node, returnVar>>)

\* this.eval(node, returnVar), dispatched on the instance's class
eval(st, node, returnVar) ==
  IF failed(st) THEN st
  ELSE IF st.dialect = "api" THEN send(st, "APIGatewayVTL_eval", <<node,
        returnVar>>)
  ELSE send(st, "VTL_eval", <<node, returnVar>>)


(***************************************************************************)
(* this.<method>(...): a call of a method of the instance st with the      *)
(* arguments a.                                                            *)
(***************************************************************************)
send(st, m, a) ==
  CASE m = "set" -> set(st, a[1], a[2])
    [] m = "var" -> var(st, a[1])
    [] m = "put" -> put(st, a[1], a[2], a[3])
    [] m = "putAll" -> putAll(st, a[1], a[2])
    [] m = "printExpr" -> printExpr(st, a[1])
    [] m = "printBody" -> printBody(st, a[1])
    [] m = "ifStmt" -> ifStmt(st, a[1], a[2], a[3])
    [] m = "foreach" -> foreach(st, a[1], a[2], a[3])
    [] m = "evalEach" -> evalEach(st, a[1], a[2], a[3])
    [] m = "evalJoin" -> evalJoin(st, a[1], a[2], a[3], a[4])
    [] m = "addItems" -> addItems(st, a[1], a[2], a[3])
    [] m = "evalArrayLiteralExpr" -> evalArrayLiteralExpr(st, a[1])
    [] m = "evalBinaryExpr" -> evalBinaryExpr(st, a[1])
    [] m = "putProperties" -> putProperties(st, a[1], a[2], a[3])
    [] m = "evalObjectLiteralExpr" -> evalObjectLiteralExpr(st, a[1])
    [] m = "evalReturnStmt" -> evalReturnStmt(st, a[1], a[2])
    [] m = "templateSpans" -> templateSpans(st, a[1], a[2], a[3], a[4])
    [] m = "evalTemplateExpr" -> evalTemplateExpr(st, a[1], a[2])
    [] m = "evalUnaryExpr" -> evalUnaryExpr(st, a[1])
    [] m = "evalUnaryPostfixExpr" -> evalUnaryPostfixExpr(st, a[1])
    [] m = "evalVariableStmt" -> evalVariableStmt(st, a[1])
    [] m = "accessorOf" -> accessorOf(st, a[1], a[2], a[3])
    [] m = "defaulted" -> defaulted(st, a[1], a[2], a[3])
    [] m = "bindElements" -> bindElements(st, a[1], a[2], a[3], a[4], a[5])
    [] m = "objectRest" -> objectRest(st, a[1], a[2], a[3])
    [] m = "evaluateBindingPattern" -> evaluateBindingPattern(st, a[1], a[2],
          a[3])
    [] m = "renderMapOrForEachBody" -> renderMapOrForEachBody(st, a[1], a[2],
          a[3], a[4], a[5])
    [] m = "before" -> before(st, a[1], a[2], a[3])
    [] m = "flattenListMapOperations" -> flattenListMapOperations(st, a[1],
          a[2], a[3], a[4])
    [] m = "evalMapOrForEach" -> evalMapOrForEach(st, a[1])
    [] m = "reduceBody" -> reduceBody(st, a[1])
    [] m = "evalReduce" -> evalReduce(st, a[1])
    [] m = "evalCallExpr" -> evalCallExpr(st, a[1])
    [] m = "integrate" -> integrate(st, a[1], a[2])
    [] m = "evalConditionExpr" -> evalConditionExpr(st, a[1])
    [] m = "evalIfStmt" -> evalIfStmt(st, a[1])
    [] m = "evalExprStmt" -> evalExprStmt(st, a[1])
    [] m = "evalForStmt" -> evalForStmt(st, a[1])
    [] m = "evalPropAccessExpr" -> evalPropAccessExpr(st, a[1])
    [] m = "evalElementAccessExpr" -> evalElementAccessExpr(st, a[1])
    [] m = "evalThrowStmt" -> evalThrowStmt(st, a[1])
    [] m = "evalPromiseExpr" -> evalPromiseExpr(st, a[1])
    [] m = "VTL_eval" -> VTL_eval(st, a[1], a[2])
    [] m = "exprToJsonJoin" -> exprToJsonJoin(st, a[1], a[2], a[3])
    [] m = "propertyToJson" -> propertyToJson(st, a[1])
    [] m = "propertiesToJson" -> propertiesToJson(st, a[1], a[2], a[3])
    [] m = "paramsToJson" -> paramsToJson(st, a[1])
    [] m = "callToJson" -> callToJson(st, a[1])
    [] m = "exprToJson" -> exprToJson(st, a[1])
    [] m = "APIGatewayVTL_eval" -> APIGatewayVTL_eval(st, a[1], a[2])
    [] m = "eval" -> eval(st, a[1], a[2])
(***************************************************************************)
(* The target runtime: an interpreter of the emitted template, one line a  *)
(* step.  Values are tagged; an object is a sequence of <<key, value>>     *)
(* pairs in insertion order.                                               *)
(***************************************************************************)
IntV(n) == [t |-> "int", v |-> n]
StrV(s) == [t |-> "str", v |-> s]
BoolV(b) == [t |-> "bool", v |-> b]
NullV == [t |-> "null", v |-> 0]
ListV(items) == [t |-> "list", v |-> items]
MapV(pairs) == [t |-> "map", v |-> pairs]

truthy(val) ==
  IF val.t = "bool" THEN val.v ELSE val.t # "null"

\* the value stored under key k of an object, null when absent
mapGet(pairs, k) ==
  IF \E i \in 1..Len(pairs) : pairs[i][1] = k
  THEN pairs[CHOOSE i \in 1..Len(pairs) : pairs[i][1] = k][2]
  ELSE NullV
mapPut(pairs, k, val) ==
  IF \E i \in 1..Len(pairs) : pairs[i][1] = k
  THEN [i \in 1..Len(pairs) |->
          IF pairs[i][1] = k THEN <<k, val>> ELSE pairs[i]]
  ELSE Append(pairs, <<k, val>>)
RECURSIVE mapPutAll(_, _)
mapPutAll(pairs, more) ==
  IF Len(more) = 0 THEN pairs
  ELSE mapPutAll(mapPut(pairs, Head(more)[1], Head(more)[2]), Tail(more))

\* the variables of a run; a name never set reads as null
lookup(env, key) == IF key \in DOMAIN env THEN env[key] ELSE NullV
bind(env, key, val) ==
  [k \in DOMAIN env \cup {key} |-> IF k = key THEN val ELSE env[k]]

(***************************************************************************)
(* Tokens of a line of the template.                                       *)
(***************************************************************************)
Digits == {"0", "1", "2", "3", "4", "5", "6", "7", "8", "9"}
Letters ==
  {"a", "b", "c", "d", "e", "f", "g", "h", "i", "j", "k", "l", "m", "n", "o",
   "p", "q", "r", "s", "t", "u", "v", "w", "x", "y", "z", "A", "B", "C", "D",
   "E", "F", "G", "H", "I", "J", "K", "L", "M", "N", "O", "P", "Q", "R", "S",
   "T", "U", "V", "W", "X", "Y", "Z", "_"}
charAt(s, i) == SubSeq(s, i, i)

\* the end of the run of characters of class at position i
RECURSIVE lastOf(_, _, _)
lastOf(s, i, class) ==
  IF i < Len(s) /\ charAt(s, i + 1) \in class THEN lastOf(s, i + 1, class)
  ELSE i

\* the position of the quote that closes the literal opened at i, or 0
RECURSIVE closing(_, _, _)
closing(s, i, quote) ==
  IF i > Len(s) THEN 0
  ELSE IF charAt(s, i) = quote THEN i
  ELSE closing(s, i + 1, quote)

RECURSIVE tokensFrom(_, _, _)
tokensFrom(s, i, toks) ==
  IF i > Len(s) THEN toks
  ELSE
    LET c == charAt(s, i)
    IN IF c = " " THEN tokensFrom(s, i + 1, toks)
       ELSE IF c \in Letters \cup Digits THEN
         LET j == lastOf(s, i, Letters \cup Digits)
         IN tokensFrom(s, j + 1, Append(toks, SubSeq(s, i, j)))
       ELSE IF c = "'" /\ closing(s, i + 1, "'") # 0 THEN
         LET j == closing(s, i + 1, "'")
         IN tokensFrom(s, j + 1, Append(toks, SubSeq(s, i, j)))
       ELSE IF /\ i < Len(s)
               /\ SubSeq(s, i, i + 1) \in {"==", "!=", "<=", ">=", "&&", "||"}
         THEN tokensFrom(s, i + 2, Append(toks, SubSeq(s, i, i + 1)))
       ELSE tokensFrom(s, i + 1, Append(toks, c))
tokens(s) == tokensFrom(s, 1, <<>>)

isNumber(tok) == \A i \in 1..Len(tok) : charAt(tok, i) \in Digits
isName(tok) == charAt(tok, 1) \in Letters
digit(c) ==
  CASE c = "0" -> 0 [] c = "1" -> 1 [] c = "2" -> 2 [] c = "3" -> 3
    [] c = "4" -> 4 [] c = "5" -> 5 [] c = "6" -> 6 [] c = "7" -> 7
    [] c = "8" -> 8 [] OTHER -> 9
RECURSIVE number(_, _, _)
number(tok, i, n) ==
  IF i > Len(tok) THEN n
  ELSE number(tok, i + 1, 10 * n + digit(charAt(tok, i)))

(***************************************************************************)
(* Expressions of the template language, evaluated over the tokens ts      *)
(* from position i.  A result carries the variables (a call may change     *)
(* them), the value, the position after the expression, and ok: FALSE      *)
(* when the text is no expression the runtime accepts.                     *)
(***************************************************************************)
Result(env, val, i) == [env |-> env, v |-> val, i |-> i, ok |-> TRUE]
Rejected(env) == [env |-> env, v |-> NullV, i |-> 0, ok |-> FALSE]
tokAt(ts, i) == IF i >= 1 /\ i <= Len(ts) THEN ts[i] ELSE ""
NoRoot == ""

sameValue(a, b) == a.t = b.t /\ a.v = b.v

\* the variable a reference starts with: `$name`, `$context.stash.name`
\* or `$context.arguments.name`; i is at the `$`
rootOf(ts, i) ==
  IF /\ tokAt(ts, i + 1) = "context"
     /\ tokAt(ts, i + 2) = "."
     /\ tokAt(ts, i + 3) \in {"stash", "arguments"}
     /\ tokAt(ts, i + 4) = "."
     /\ tokAt(ts, i + 5) # "" /\ isName(tokAt(ts, i + 5))
  THEN [key |-> "context." \o tokAt(ts, i + 3) \o "." \o tokAt(ts, i + 5),
        i |-> i + 6, ok |-> TRUE]
  ELSE IF tokAt(ts, i + 1) # "" /\ isName(tokAt(ts, i + 1))
  THEN [key |-> tokAt(ts, i + 1), i |-> i + 2, ok |-> TRUE]
  ELSE [key |-> NoRoot, i |-> 0, ok |-> FALSE]

\* recv.name(args); root names the variable that holds recv, if any
invoke(env, root, recv, name, args) ==
  LET n == Len(args)
      sized == recv.t \in {"list", "map"}
      held == root # NoRoot
  IN CASE name = "isEmpty" /\ n = 0 /\ sized ->
            Result(env, BoolV(Len(recv.v) = 0), 0)
       [] name = "size" /\ n = 0 /\ sized ->
            Result(env, IntV(Len(recv.v)), 0)
       [] name = "keySet" /\ n = 0 /\ recv.t = "map" ->
            Result(env, ListV([k \in 1..Len(recv.v) |-> StrV(recv.v[k][1])]),
                   0)
       [] name = "contains" /\ n = 1 /\ recv.t = "list" ->
            Result(env, BoolV(\E k \in 1..Len(recv.v) :
                                sameValue(recv.v[k], args[1])), 0)
       [] name = "get" /\ n = 1 /\ recv.t = "map" /\ args[1].t = "str" ->
            Result(env, mapGet(recv.v, args[1].v), 0)
       [] name = "add" /\ n = 1 /\ recv.t = "list" /\ held ->
            Result(bind(env, root, ListV(Append(recv.v, args[1]))),
                   BoolV(TRUE), 0)
       [] name = "addAll" /\ n = 1 /\ recv.t = "list" /\ held
            /\ args[1].t = "list" ->
            Result(bind(env, root, ListV(recv.v \o args[1].v)),
                   BoolV(Len(args[1].v) > 0), 0)
       [] name = "put" /\ n = 2 /\ recv.t = "map" /\ held
            /\ args[1].t = "str" ->
            Result(bind(env, root, MapV(mapPut(recv.v, args[1].v, args[2]))),
                   mapGet(recv.v, args[1].v), 0)
       [] name = "putAll" /\ n = 1 /\ recv.t = "map" /\ held
            /\ args[1].t = "map" ->
            Result(bind(env, root, MapV(mapPutAll(recv.v, args[1].v))),
                   NullV, 0)
       [] OTHER -> Rejected(env)

\* recv[key] and recv.key
index(recv, key) ==
  IF recv.t = "map" /\ key.t = "str" THEN mapGet(recv.v, key.v)
  ELSE IF /\ recv.t = "list" /\ key.t = "int"
          /\ key.v >= 0 /\ key.v < Len(recv.v) THEN recv.v[key.v + 1]
  ELSE NullV

ArithmeticOps == {"+", "-", "*"}
ComparisonOps == {"==", "!=", "<", ">", "<=", ">="}
LogicalOps == {"&&", "||"}
binary(op, l, r) ==
  CASE op \in ArithmeticOps /\ l.t = "int" /\ r.t = "int" ->
         IntV(CASE op = "+" -> l.v + r.v
                [] op = "-" -> l.v - r.v
                [] OTHER -> l.v * r.v)
    [] op = "==" -> BoolV(sameValue(l, r))
    [] op = "!=" -> BoolV(~sameValue(l, r))
    [] op \in {"<", ">", "<=", ">="} /\ l.t = "int" /\ r.t = "int" ->
         BoolV(CASE op = "<" -> l.v < r.v
                 [] op = ">" -> l.v > r.v
                 [] op = "<=" -> l.v <= r.v
                 [] OTHER -> l.v >= r.v)
    [] op = "&&" -> BoolV(truthy(l) /\ truthy(r))
    [] op = "||" -> BoolV(truthy(l) \/ truthy(r))
    [] OTHER -> NullV

RECURSIVE evaluate(_, _)

\* expressions separated by commas up to the token close; v is their list
items(ts, i, env, fidx, close, sofar) ==
  IF tokAt(ts, i) = close THEN Result(env, sofar, i + 1)
  ELSE
    LET r == evaluate("expression", <<ts, i, env, fidx>>)
    IN IF ~r.ok THEN r
       ELSE IF tokAt(ts, r.i) = ","
         THEN evaluate("items", <<ts, r.i + 1, r.env, fidx, close,
               Append(sofar, r.v)>>)
       ELSE IF tokAt(ts, r.i) = close
         THEN Result(r.env, Append(sofar, r.v), r.i + 1)
       ELSE Rejected(env)

\* the accessors and calls that follow a reference
postfix(ts, i, env, fidx, recv, root) ==
  IF tokAt(ts, i) = "." /\ tokAt(ts, i + 1) # "" /\ isName(tokAt(ts, i + 1))
  THEN
    IF tokAt(ts, i + 2) = "(" THEN
      LET a == evaluate("items", <<ts, i + 3, env, fidx, ")", <<>>>>)
      IN IF ~a.ok THEN a
         ELSE LET r == invoke(a.env, root, recv, tokAt(ts, i + 1), a.v)
              IN IF ~r.ok THEN r
                 ELSE evaluate("postfix", <<ts, a.i, r.env, fidx, r.v, NoRoot>>)
    ELSE evaluate("postfix", <<ts, i + 2, env, fidx, index(recv, StrV(tokAt(ts,
          i + 1))), NoRoot>>)
  ELSE IF tokAt(ts, i) = "[" THEN
    LET k == evaluate("expression", <<ts, i + 1, env, fidx>>)
    IN IF ~k.ok \/ tokAt(ts, k.i) # "]" THEN Rejected(env)
       ELSE evaluate("postfix", <<ts, k.i + 1, k.env, fidx, index(recv, k.v),
             NoRoot>>)
  ELSE Result(env, recv, i)

primary(ts, i, env, fidx) ==
  LET tok == tokAt(ts, i)
  IN CASE tok = "" -> Rejected(env)
       [] isNumber(tok) -> Result(env, IntV(number(tok, 1, 0)), i + 1)
       [] charAt(tok, 1) = "'" /\ Len(tok) >= 2 ->
            Result(env, StrV(SubSeq(tok, 2, Len(tok) - 1)), i + 1)
       [] tok \in {"true", "false"} -> Result(env, BoolV(tok = "true"), i + 1)
       [] tok = "[" ->
            LET r == evaluate("items", <<ts, i + 1, env, fidx, "]", <<>>>>)
            IN IF ~r.ok THEN r ELSE Result(r.env, ListV(r.v), r.i)
       [] tok = "{" /\ tokAt(ts, i + 1) = "}" ->
            Result(env, MapV(<<>>), i + 2)
       [] tok = "$" /\ tokAt(ts, i + 1) = "foreach"
            /\ tokAt(ts, i + 2) = "." /\ tokAt(ts, i + 3) = "index" ->
            IF fidx < 0 THEN Result(env, NullV, i + 4)
            ELSE Result(env, IntV(fidx), i + 4)
       [] tok = "$" ->
            LET root == rootOf(ts, i)
            IN IF ~root.ok THEN Rejected(env)
               ELSE evaluate("postfix", <<ts, root.i, env, fidx, lookup(env,
                     root.key), root.key>>)
       [] OTHER -> Rejected(env)

unary(ts, i, env, fidx) ==
  IF tokAt(ts, i) = "!" THEN
    LET r == evaluate("unary", <<ts, i + 1, env, fidx>>)
    IN IF ~r.ok THEN r ELSE Result(r.env, BoolV(~truthy(r.v)), r.i)
  ELSE evaluate("primary", <<ts, i, env, fidx>>)

expression(ts, i, env, fidx) ==
  LET l == evaluate("unary", <<ts, i, env, fidx>>)
  IN IF ~l.ok THEN l
     ELSE IF tokAt(ts, l.i) \in ArithmeticOps \cup ComparisonOps
                                 \cup LogicalOps THEN
       LET r == evaluate("unary", <<ts, l.i + 1, l.env, fidx>>)
       IN IF ~r.ok THEN r
          ELSE Result(r.env, binary(tokAt(ts, l.i), l.v, r.v), r.i)
     ELSE l

\* the entry the operators above call one another through
evaluate(f, a) ==
  CASE f = "expression" -> expression(a[1], a[2], a[3], a[4])
    [] f = "unary" -> unary(a[1], a[2], a[3], a[4])
    [] f = "primary" -> primary(a[1], a[2], a[3], a[4])
    [] f = "postfix" -> postfix(a[1], a[2], a[3], a[4], a[5], a[6])
    [] f = "items" -> items(a[1], a[2], a[3], a[4], a[5], a[6])

(***************************************************************************)
(* Lines and blocks.                                                       *)
(***************************************************************************)
\* the lines of a template
RECURSIVE split(_, _, _)
split(s, i, sofar) ==
  IF i > Len(s) + 1 THEN sofar
  ELSE LET j == closing(s, i, "\n")
           e == IF j = 0 THEN Len(s) + 1 ELSE j
       IN split(s, e + 1, Append(sofar, SubSeq(s, i, e - 1)))
linesOf(text) == IF text = "" THEN <<>> ELSE split(text, 1, <<>>)

\* what a line is: a directive, a call of $util, or text
directive(ts) ==
  IF tokAt(ts, 1) = "#" THEN tokAt(ts, 2)
  ELSE IF /\ tokAt(ts, 1) = "$" /\ tokAt(ts, 2) = "util"
          /\ tokAt(ts, 3) = "." /\ tokAt(ts, 5) = "("
    THEN tokAt(ts, 4)
  ELSE "text"

\* the line at or after i that ends the block open at depth 1: its #end,
\* or its #else when orElse; 0 when there is none
RECURSIVE matching(_, _, _, _)
matching(ls, i, depth, orElse) ==
  IF i > Len(ls) THEN 0
  ELSE
    LET d == directive(tokens(ls[i]))
    IN IF d \in {"if", "foreach"} THEN matching(ls, i + 1, depth + 1, orElse)
       ELSE IF d = "end" THEN
         IF depth = 1 THEN i ELSE matching(ls, i + 1, depth - 1, orElse)
       ELSE IF d = "else" /\ depth = 1 /\ orElse THEN i
       ELSE matching(ls, i + 1, depth, orElse)

\* the innermost loop of the block stack, as an index into it (0: none)
RECURSIVE innermost(_, _)
innermost(stack, i) ==
  IF i = 0 THEN 0
  ELSE IF stack[i].kind = "foreach" THEN i
  ELSE innermost(stack, i - 1)
foreachIndex(stack) ==
  IF innermost(stack, Len(stack)) = 0 THEN -1
  ELSE stack[innermost(stack, Len(stack))].idx

IfFrame == [kind |-> "if", head |-> 0, var |-> "", list |-> <<>>, idx |-> 0]
ForeachFrame(head, name, list) ==
  [kind |-> "foreach", head |-> head, var |-> name, list |-> list, idx |-> 0]

(***************************************************************************)
(* One line of a run.  rt: the variables env, the line ip, the stack of    *)
(* open blocks, status and the yielded value or raised message result.     *)
(***************************************************************************)
invalid(rt) == [rt EXCEPT !.status = "invalid"]
goto(rt, env, ip) == [rt EXCEPT !.env = env, !.ip = ip]

\* #set(reference = expression), reference a variable, or one key or
\* property of a variable that holds an object
runSet(rt, ts, fidx) ==
  LET root == rootOf(ts, 4)
      direct == root.ok /\ tokAt(ts, root.i) = "="
      keyed == root.ok /\ tokAt(ts, root.i) = "["
      k == IF keyed THEN evaluate("expression", <<ts, root.i + 1, rt.env,
            fidx>>)
           ELSE Rejected(rt.env)
      eq == IF direct THEN root.i
            ELSE IF k.ok /\ tokAt(ts, k.i) = "]" /\ tokAt(ts, k.i + 1) = "="
              THEN k.i + 1
            ELSE 0
      r == IF eq = 0 THEN Rejected(rt.env)
           ELSE evaluate("expression", <<ts, eq + 1,
                 IF direct THEN rt.env ELSE k.env, fidx>>)
      held == lookup(r.env, root.key)
  IN IF ~r.ok \/ tokAt(ts, r.i) # ")" \/ r.i # Len(ts) THEN invalid(rt)
     ELSE IF direct THEN goto(rt, bind(r.env, root.key, r.v), rt.ip + 1)
     ELSE IF held.t = "map" /\ k.v.t = "str"
       THEN goto(rt, bind(r.env, root.key, MapV(mapPut(held.v, k.v.v, r.v))),
                 rt.ip + 1)
     ELSE invalid(rt)

runIf(rt, ls, ts, fidx) ==
  LET r == evaluate("expression", <<ts, 4, rt.env, fidx>>)
      m == matching(ls, rt.ip + 1, 1, TRUE)
  IN IF ~r.ok \/ tokAt(ts, r.i) # ")" \/ r.i # Len(ts) \/ m = 0
     THEN invalid(rt)
     ELSE IF truthy(r.v)
       THEN [goto(rt, r.env, rt.ip + 1) EXCEPT !.stack = Append(@, IfFrame)]
     ELSE IF directive(tokens(ls[m])) = "else"
       THEN [goto(rt, r.env, m + 1) EXCEPT !.stack = Append(@, IfFrame)]
     ELSE goto(rt, r.env, m + 1)

\* #else is reached at the end of the branch taken: leave the block
runElse(rt, ls) ==
  LET m == matching(ls, rt.ip + 1, 1, FALSE)
      n == Len(rt.stack)
  IN IF m = 0 \/ n = 0 THEN invalid(rt)
     ELSE IF rt.stack[n].kind # "if" THEN invalid(rt)
     ELSE [goto(rt, rt.env, m + 1) EXCEPT !.stack = SubSeq(@, 1, n - 1)]

runEnd(rt) ==
  LET n == Len(rt.stack)
      top == rt.stack[n]
  IN IF n = 0 THEN invalid(rt)
     ELSE IF top.kind = "foreach" /\ top.idx + 1 < Len(top.list)
       THEN [goto(rt, bind(rt.env, top.var, top.list[top.idx + 2]),
                  top.head + 1)
               EXCEPT !.stack[n].idx = @ + 1]
     ELSE [goto(rt, rt.env, rt.ip + 1) EXCEPT !.stack = SubSeq(@, 1, n - 1)]

\* #foreach($name in expression)
runForeach(rt, ls, ts, fidx) ==
  LET named == /\ tokAt(ts, 4) = "$" /\ tokAt(ts, 5) # ""
               /\ isName(tokAt(ts, 5)) /\ tokAt(ts, 6) = "in"
      r == IF named THEN evaluate("expression", <<ts, 7, rt.env, fidx>>)
           ELSE Rejected(rt.env)
      m == matching(ls, rt.ip + 1, 1, FALSE)
  IN IF ~r.ok \/ tokAt(ts, r.i) # ")" \/ r.i # Len(ts) \/ m = 0
     THEN invalid(rt)
     ELSE IF r.v.t # "list" THEN goto(rt, r.env, m + 1)
     ELSE IF Len(r.v.v) = 0 THEN goto(rt, r.env, m + 1)
     ELSE [goto(rt, bind(r.env, tokAt(ts, 5), r.v.v[1]), rt.ip + 1)
             EXCEPT !.stack = Append(@, ForeachFrame(rt.ip, tokAt(ts, 5),
                                                     r.v.v))]

runBreak(rt, ls) ==
  LET n == innermost(rt.stack, Len(rt.stack))
      m == IF n = 0 THEN 0 ELSE matching(ls, rt.stack[n].head + 1, 1, FALSE)
  IN IF m = 0 THEN invalid(rt)
     ELSE [goto(rt, rt.env, m + 1) EXCEPT !.stack = SubSeq(@, 1, n - 1)]

\* #return(expression), $util.qr(expression), $util.error(expression)
runCall(rt, ts, fidx, d) ==
  LET r == evaluate("expression", <<ts, IF d = "return" THEN 4 ELSE 6, rt.env,
        fidx>>)
  IN IF ~r.ok \/ tokAt(ts, r.i) # ")" \/ r.i # Len(ts) THEN invalid(rt)
     ELSE IF d = "qr" THEN goto(rt, r.env, rt.ip + 1)
     ELSE [rt EXCEPT !.env = r.env, !.result = r.v,
                     !.status = IF d = "return" THEN "returned" ELSE "error"]

step(rt, ls) ==
  LET ts == tokens(ls[rt.ip])
      d == directive(ts)
      fidx == foreachIndex(rt.stack)
      bracketed == tokAt(ts, 3) = "("
  IN CASE d = "set" /\ bracketed -> runSet(rt, ts, fidx)
       [] d = "if" /\ bracketed -> runIf(rt, ls, ts, fidx)
       [] d = "else" /\ Len(ts) = 2 -> runElse(rt, ls)
       [] d = "end" /\ Len(ts) = 2 -> runEnd(rt)
       [] d = "foreach" /\ bracketed -> runForeach(rt, ls, ts, fidx)
       [] d = "break" /\ Len(ts) = 2 -> runBreak(rt, ls)
       [] d = "return" /\ bracketed -> runCall(rt, ts, fidx, d)
       [] d \in {"qr", "error"} /\ tokAt(ts, 1) = "$" -> runCall(rt, ts, fidx,
             d)
       [] OTHER -> invalid(rt)
(***************************************************************************)
(* The functions handed to the compiler.  A program is named by a          *)
(* descriptor [fam, n, s]: a family, a variant and a sequence of codes.    *)
(***************************************************************************)
\* bounds of the generated families
MaxChain == 2
MaxProps == 3
MaxPath == 3

context == Identifier("context", "param0")
\* context.arguments.<name>
argument(name) == PropAccessExpr(PropAccessExpr(context, "arguments"), name)
item == Identifier("item", "fnparam")
callback(parameters, statements) ==
  FunctionExpr([i \in 1..Len(parameters) |-> ParameterDecl(parameters[i])],
               BlockStmt(statements))
\* an arrow function with an expression body
arrow(parameters, expr) == callback(parameters, <<ReturnStmt(expr)>>)

\* the callbacks of map and forEach stages
MapCallbacks ==
  << \* (item) => item + 1
     arrow(<<"item">>, BinaryExpr(item, "+", NumberLiteralExpr(1))),
     \* (item) => { if (item > 1) { return 1; } else { return 2; } }
     callback(<<"item">>,
       <<IfStmt(BinaryExpr(item, ">", NumberLiteralExpr(1)),
                BlockStmt(<<ReturnStmt(NumberLiteralExpr(1))>>),
                BlockStmt(<<ReturnStmt(NumberLiteralExpr(2))>>))>>),
     \* (item, idx) => idx
     arrow(<<"item", "idx">>, Identifier("idx", "fnparam")),
     \* (item, idx, arr) => arr
     arrow(<<"item", "idx", "arr">>, Identifier("arr", "fnparam")),
     \* () => 1
     arrow(<<>>, NumberLiteralExpr(1)),
     \* (x) => { const y = x; return `hello ${y}`; }
     callback(<<"x">>,
       <<VariableStmt(Raw("y"), Identifier("x", "fnparam"), FALSE),
         ReturnStmt(TemplateExpr(<<StringLiteralExpr("hello "),
                                   Identifier("y", "var")>>))>>),
     \* (item) => { { return item; } }
     callback(<<"item">>, <<BlockStmt(<<ReturnStmt(item)>>)>>),
     \* (item) => { for (const y of item) { return y; } }
     callback(<<"item">>,
       <<ForOfStmt(VariableStmt(Raw("y"), Absent, FALSE), item,
                   BlockStmt(<<ReturnStmt(Identifier("y", "var"))>>))>>) >>

acc == Identifier("acc", "fnparam")
x == Identifier("x", "fnparam")
\* the callbacks of reduce stages
ReduceCallbacks ==
  << \* (acc, x) => acc + x
     arrow(<<"acc", "x">>, BinaryExpr(acc, "+", x)),
     \* (acc, x, i, arr) => { if (x > 1) { return acc; } return x; }
     callback(<<"acc", "x", "i", "arr">>,
       <<IfStmt(BinaryExpr(x, ">", NumberLiteralExpr(1)),
                BlockStmt(<<ReturnStmt(acc)>>), Absent),
         ReturnStmt(x)>>),
     \* () => 1
     arrow(<<>>, NumberLiteralExpr(1)) >>

mapCall(receiver, fn) ==
  CallExpr(Callee(receiver, "map"), <<Argument(fn, "callbackfn")>>)
forEachCall(receiver, fn) ==
  CallExpr(Callee(receiver, "forEach"), <<Argument(fn, "callbackfn")>>)
reduceCall(receiver, fn, initialValue) ==
  CallExpr(Callee(receiver, "reduce"),
           IF initialValue.kind = "Absent"
           THEN <<Argument(fn, "callbackfn")>>
           ELSE <<Argument(fn, "callbackfn"),
                  Argument(initialValue, "initialValue")>>)

\* list.map(c1).map(c2)... for the callback codes s
RECURSIVE mapChain(_, _)
mapChain(receiver, s) ==
  IF Len(s) = 0 THEN receiver
  ELSE mapChain(mapCall(receiver, MapCallbacks[Head(s)]), Tail(s))

\* the stages that end a chain: forEach and reduce calls
Terminals ==
  << [op |-> "forEach", fn |-> MapCallbacks[1], initialValue |-> Absent],
     [op |-> "forEach", fn |-> MapCallbacks[2], initialValue |-> Absent],
     [op |-> "reduce", fn |-> ReduceCallbacks[1], initialValue |-> Absent],
     [op |-> "reduce", fn |-> ReduceCallbacks[1],
      initialValue |-> NumberLiteralExpr(0)],
     [op |-> "reduce", fn |-> ReduceCallbacks[2], initialValue |-> Absent],
     [op |-> "reduce", fn |-> ReduceCallbacks[2],
      initialValue |-> NumberLiteralExpr(0)],
     [op |-> "reduce", fn |-> ReduceCallbacks[3], initialValue |-> Absent],
     [op |-> "reduce", fn |-> ReduceCallbacks[3],
      initialValue |-> NumberLiteralExpr(0)],
     [op |-> "forEach", fn |-> MapCallbacks[4], initialValue |-> Absent] >>
\* terminal 0: the chain ends with its last map
terminal(receiver, n) ==
  IF n = 0 THEN receiver
  ELSE IF Terminals[n].op = "forEach"
    THEN forEachCall(receiver, Terminals[n].fn)
  ELSE reduceCall(receiver, Terminals[n].fn, Terminals[n].initialValue)

ChainPrograms ==
  {[fam |-> "chain", n |-> n, s |-> s] :
     n \in 0..Len(Terminals),
     s \in UNION {[1..k -> 1..Len(MapCallbacks)] : k \in 0..MaxChain}}
     \ {[fam |-> "chain", n |-> 0, s |-> <<>>]}

chainBody(d) ==
  <<ReturnStmt(terminal(mapChain(argument("list"), d.s), d.n))>>

\* the same chains, stored: const r = <chain>; return r;
StoredPrograms == {[d EXCEPT !.fam = "stored"] : d \in ChainPrograms}
storedBody(d) ==
  <<VariableStmt(Raw("r"), terminal(mapChain(argument("list"), d.s), d.n),
                 TRUE),
    ReturnStmt(Identifier("r", "vartop"))>>

\* the properties an object literal is made of
input == Identifier("input", "param0")
Properties ==
  << PropAssignExpr(Identifier("a", "none"), NumberLiteralExpr(1)),
     PropAssignExpr(StringLiteralExpr("b"), StringLiteralExpr("x")),
     PropAssignExpr(Identifier("c", "none"),
                    BinaryExpr(argument("n"), "+", NumberLiteralExpr(1))),
     SpreadAssignExpr(argument("obj")),
     SpreadAssignExpr(Identifier("other", "vartop")),
     PropAssignExpr(Identifier("d", "none"),
       ObjectLiteralExpr(<<PropAssignExpr(Identifier("e", "none"),
                                          NumberLiteralExpr(2))>>)) >>

ObjectPrograms ==
  {[fam |-> "object", n |-> n, s |-> s] :
     n \in 1..2,
     s \in UNION {[1..k -> 1..Len(Properties)] : k \in 1..MaxProps}}

objectLiteral(d) ==
  ObjectLiteralExpr([i \in 1..Len(d.s) |-> Properties[d.s[i]]])
\* 1: return { ... };  2: const o = { ... }; return o;
objectBody(d) ==
  IF d.n = 1 THEN <<ReturnStmt(objectLiteral(d))>>
  ELSE <<VariableStmt(Raw("o"), objectLiteral(d), TRUE),
         ReturnStmt(Identifier("o", "vartop"))>>

\* the accessors a returned chain is made of:
\* .a  [0]  .data  ['k']  [input.k]
Accessors ==
  << [kind |-> "prop", name |-> "a"],
     [kind |-> "element", element |-> NumberLiteralExpr(0)],
     [kind |-> "prop", name |-> "data"],
     [kind |-> "element", element |-> StringLiteralExpr("k")],
     [kind |-> "element", element |-> PropAccessExpr(input, "k")] >>
access(expr, code) ==
  IF Accessors[code].kind = "prop"
  THEN PropAccessExpr(expr, Accessors[code].name)
  ELSE ElementAccessExpr(expr, Accessors[code].element)
RECURSIVE accessChain(_, _)
accessChain(root, s) ==
  IF Len(s) = 0 THEN root
  ELSE accessChain(access(root, Head(s)), Tail(s))

\* the roots: 1 the first parameter, 2 the second parameter,
\* 3 a local variable, 4 the first parameter, with 1 added to the chain
PathPrograms ==
  {[fam |-> "path", n |-> n, s |-> s] :
     n \in 1..4,
     s \in UNION {[1..k -> 1..Len(Accessors)] : k \in 0..MaxPath}}

pathBody(d) ==
  IF d.n = 1 THEN <<ReturnStmt(accessChain(input, d.s))>>
  ELSE IF d.n = 2
    THEN <<ReturnStmt(accessChain(Identifier("context", "param1"), d.s))>>
  ELSE IF d.n = 3
    THEN <<VariableStmt(Raw("local"), PropAccessExpr(input, "a"), TRUE),
           ReturnStmt(accessChain(Identifier("local", "vartop"), d.s))>>
  ELSE <<ReturnStmt(BinaryExpr(accessChain(input, d.s), "+",
                               NumberLiteralExpr(1)))>>

\* hand-written functions
pushCall(receiver, value) ==
  \* the front end hands the rest parameter `...items` over as one
  \* array literal argument
  CallExpr(Callee(receiver, "push"),
           <<Argument(ArrayLiteralExpr(<<value>>), "items")>>)
FixedBodies ==
  << \* context.arguments.list.push("x"); return context.arguments.list;
     <<ExprStmt(pushCall(argument("list"), StringLiteralExpr("x"))),
       ReturnStmt(argument("list"))>>,
     \* const list = []; list.push("x"); return list;
     <<VariableStmt(Raw("list"), ArrayLiteralExpr(<<>>), TRUE),
       ExprStmt(pushCall(Identifier("list", "vartop"),
                         StringLiteralExpr("x"))),
       ReturnStmt(Identifier("list", "vartop"))>>,
     \* const b = context.arguments.b; const {a, ...rest} = b; return rest;
     <<VariableStmt(Raw("b"), argument("b"), TRUE),
       VariableStmt(
         ObjectBinding(<<
           BindingElem(Identifier("a", "binding"), FALSE, Absent, Absent),
           BindingElem(Identifier("rest", "binding"), TRUE, Absent, Absent)
         >>),
         Identifier("b", "vartop"), TRUE),
       ReturnStmt(Identifier("rest", "binding"))>>,
     \* if (context.arguments.list.length > 0) { return true; }
     \* else { return false; }
     <<IfStmt(BinaryExpr(PropAccessExpr(argument("list"), "length"), ">",
                         NumberLiteralExpr(0)),
              BlockStmt(<<ReturnStmt(BooleanLiteralExpr(TRUE))>>),
              BlockStmt(<<ReturnStmt(BooleanLiteralExpr(FALSE))>>))>>,
     \* const newList = [];
     \* for (const i of context.arguments.list) { newList.push(i); }
     \* return newList;
     <<VariableStmt(Raw("newList"), ArrayLiteralExpr(<<>>), TRUE),
       ForOfStmt(VariableStmt(Raw("i"), Absent, FALSE), argument("list"),
         BlockStmt(<<ExprStmt(pushCall(Identifier("newList", "vartop"),
                                       Identifier("i", "var")))>>)),
       ReturnStmt(Identifier("newList", "vartop"))>>
  >>
FixedPrograms ==
  {[fam |-> "fixed", n |-> n, s |-> <<>>] : n \in 1..Len(FixedBodies)}

\* calls of integrations and promises
\* the expressions a promise wraps: a call of an integration of Referenced,
\* a property of the payload, a literal
Wrapped ==
  << CallExpr(ReferenceExpr("both", TRUE), <<Argument(input, "payload")>>),
     CallExpr(ReferenceExpr("none", TRUE), <<Argument(input, "payload")>>),
     CallExpr(ReferenceExpr("hooked", TRUE), <<Argument(input, "payload")>>),
     PropAccessExpr(input, "a"),
     NumberLiteralExpr(1) >>
\* the places of the expression e in the body
CallShapes == 1..6
callBody(d) ==
  LET e == Wrapped[d.n]
      shape == d.s[1]
  IN CASE shape = 1 -> \* return e;
            <<ReturnStmt(e)>>
       [] shape = 2 -> \* return await e;
            <<ReturnStmt(AwaitExpr(PromiseExpr(e, "AwaitExpr")))>>
       [] shape = 3 -> \* return e; with e a promise
            <<ReturnStmt(PromiseExpr(e, "ReturnStmt"))>>
       [] shape = 4 -> \* const p = e; return p;
            <<VariableStmt(Raw("p"), PromiseExpr(e, "VariableStmt"), TRUE),
              ReturnStmt(Identifier("p", "vartop"))>>
       [] shape = 5 -> \* e; return 1;
            <<ExprStmt(PromiseExpr(e, "ExprStmt")),
              ReturnStmt(NumberLiteralExpr(1))>>
       [] shape = 6 -> \* const r = await e; return r;
            <<VariableStmt(Raw("r"),
                           AwaitExpr(PromiseExpr(e, "AwaitExpr")), TRUE),
              ReturnStmt(Identifier("r", "vartop"))>>
CallPrograms ==
  {[fam |-> "call", n |-> n, s |-> <<shape>>] :
     n \in 1..Len(Wrapped), shape \in CallShapes}

\* receiver.push(...values): the front end hands the rest parameter
\* `...items` over as one array literal argument
pushAll(receiver, values) ==
  CallExpr(Callee(receiver, "push"),
           <<Argument(ArrayLiteralExpr(values), "items")>>)
\* statements of constructs the dialects do not lower
Illegal ==
  << TryStmt,
     WhileStmt,
     DoStmt,
     ExprStmt(TypeOfExpr(input)),
     ContinueStmt,
     CatchClause,
     \* throw "boom";
     ThrowStmt(StringLiteralExpr("boom")),
     \* throw new Error("boom");
     ThrowStmt(NewExpr(Identifier("Error", "none"),
                       <<Argument(StringLiteralExpr("boom"), "message")>>)),
     \* context.arguments.list.push("x", "y");
     ExprStmt(pushAll(argument("list"),
                      <<StringLiteralExpr("x"), StringLiteralExpr("y")>>)),
     \* new Date();
     ExprStmt(NewExpr(Identifier("Date", "none"), <<>>)),
     ExprStmt(ParameterDecl("p")),
     ExprStmt(ReferenceExpr("both", TRUE)),
     ExprStmt(PropAssignExpr(Identifier("a", "none"), NumberLiteralExpr(1))),
     \* third; with third the third parameter of the function
     ExprStmt(Identifier("third", "param2")),
     \* input['k']; and return input['k'];
     ExprStmt(ElementAccessExpr(input, StringLiteralExpr("k"))),
     ReturnStmt(ElementAccessExpr(input, StringLiteralExpr("k"))) >>
\* the places of the statement stmt in the body: a statement of the body,
\* of the block of an if, of the body of a for-of loop, of the callback of
\* a map
Places == 0..3
illegalBody(d) ==
  LET stmt == Illegal[d.n]
      place == d.s[1]
      one == NumberLiteralExpr(1)
  IN CASE place = 0 -> <<stmt, ReturnStmt(one)>>
       [] place = 1 ->
            <<IfStmt(BinaryExpr(argument("n"), ">", one),
                     BlockStmt(<<stmt>>), Absent),
              ReturnStmt(one)>>
       [] place = 2 ->
            <<ForOfStmt(VariableStmt(Raw("i"), Absent, FALSE),
                        argument("list"), BlockStmt(<<stmt>>)),
              ReturnStmt(one)>>
       [] place = 3 ->
            <<VariableStmt(Raw("r"),
                mapCall(argument("list"),
                        callback(<<"item">>, <<stmt, ReturnStmt(item)>>)),
                TRUE),
              ReturnStmt(one)>>
IllegalPrograms ==
  {[fam |-> "illegal", n |-> n, s |-> <<place>>] :
     n \in 1..Len(Illegal), place \in Places}

\* declarations by pattern
bound(name) == BindingElem(Identifier(name, "binding"), FALSE, Absent, Absent)
restOf(name) == BindingElem(name, TRUE, Absent, Absent)
Patterns ==
  << \* { 'a': x, ...rest }
     ObjectBinding(<<
       BindingElem(Identifier("x", "binding"), FALSE, StringLiteralExpr("a"),
                   Absent),
       restOf(Identifier("rest", "binding"))>>),
     \* { a, c: y, ...rest }
     ObjectBinding(<<
       bound("a"),
       BindingElem(Identifier("y", "binding"), FALSE, Identifier("c", "none"),
                   Absent),
       restOf(Identifier("rest", "binding"))>>),
     \* [a, ...[c, d]]
     ArrayBinding(<<
       bound("a"), restOf(ArrayBinding(<<bound("c"), bound("d")>>))>>),
     \* { a = 1, c: { d } }
     ObjectBinding(<<
       BindingElem(Identifier("a", "binding"), FALSE, Absent,
                   NumberLiteralExpr(1)),
       BindingElem(ObjectBinding(<<bound("d")>>), FALSE,
                   Identifier("c", "none"), Absent)>>),
     \* [a, , ...rest]
     ArrayBinding(<<bound("a"), Absent, restOf(Identifier("rest", "binding"))>>)
  >>
\* place 0: const b = context.arguments.b; const <pattern> = b; return 1;
\* place 1: for (const i of context.arguments.list) { const <pattern> = i; }
\*          return 1;
patternBody(d) ==
  IF d.s[1] = 0
  THEN <<VariableStmt(Raw("b"), argument("b"), TRUE),
         VariableStmt(Patterns[d.n], Identifier("b", "vartop"), TRUE),
         ReturnStmt(NumberLiteralExpr(1))>>
  ELSE <<ForOfStmt(VariableStmt(Raw("i"), Absent, FALSE), argument("list"),
           BlockStmt(<<VariableStmt(Patterns[d.n], Identifier("i", "var"),
                                    FALSE)>>)),
         ReturnStmt(NumberLiteralExpr(1))>>
PatternPrograms ==
  {[fam |-> "pattern", n |-> n, s |-> <<place>>] :
     n \in 1..Len(Patterns), place \in 0..1}

\* further bodies: promises, several integrations, operators
called(name) ==
  ExprStmt(AwaitExpr(PromiseExpr(
    CallExpr(ReferenceExpr(name, TRUE), <<Argument(input, "payload")>>),
    "AwaitExpr")))
\* context.arguments.list[context.arguments.n + 1]
operand ==
  ElementAccessExpr(argument("list"),
                    BinaryExpr(argument("n"), "+", NumberLiteralExpr(1)))
promiseAll(expr) ==
  CallExpr(Callee(Identifier("Promise", "none"), "all"),
           <<Argument(expr, "values")>>)
MoreBodies ==
  << \* const c = [1, 2]; return Promise.all(c);
     <<VariableStmt(Raw("c"), ArrayLiteralExpr(<<NumberLiteralExpr(1),
                                                 NumberLiteralExpr(2)>>),
                    TRUE),
       ReturnStmt(PromiseExpr(promiseAll(Identifier("c", "vartop")),
                              "ReturnStmt"))>>,
     \* return await Promise.all(context.arguments.list);
     <<ReturnStmt(AwaitExpr(PromiseExpr(promiseAll(argument("list")),
                                        "AwaitExpr")))>>,
     \* await both(input); await also(input); return 1;
     <<called("both"), called("also"), ReturnStmt(NumberLiteralExpr(1))>>,
     \* await also(input); await both(input); return 1;
     <<called("also"), called("both"), ReturnStmt(NumberLiteralExpr(1))>>,
     \* await both(input); await none(input); return 1;
     <<called("both"), called("none"), ReturnStmt(NumberLiteralExpr(1))>>,
     \* await also(input); await hooked(input); await both(input); return 1;
     <<called("also"), called("hooked"), called("both"),
       ReturnStmt(NumberLiteralExpr(1))>>,
     \* context.arguments.list[context.arguments.n + 1] += 1; return 1;
     <<ExprStmt(BinaryExpr(operand, "+=", NumberLiteralExpr(1))),
       ReturnStmt(NumberLiteralExpr(1))>>,
     \* ++context.arguments.list[context.arguments.n + 1]; return 1;
     <<ExprStmt(UnaryExpr("++", operand)),
       ReturnStmt(NumberLiteralExpr(1))>>,
     \* context.arguments.list[context.arguments.n + 1]--; return 1;
     <<ExprStmt(UnaryPostfixExpr("--", operand)),
       ReturnStmt(NumberLiteralExpr(1))>>,
     \* return context.arguments.a ?? 2;
     <<ReturnStmt(BinaryExpr(argument("a"), "??",
                             NumberLiteralExpr(2)))>>,
     \* return context.arguments.a ? 1 : context.arguments.a ?? 2;
     <<ReturnStmt(ConditionExpr(argument("a"), NumberLiteralExpr(1),
         BinaryExpr(argument("a"), "??", NumberLiteralExpr(2))))>>,
     \* const keys = [];
     \* for (const k in context.arguments.b) { keys.push(k); }
     \* return keys;
     <<VariableStmt(Raw("keys"), ArrayLiteralExpr(<<>>), TRUE),
       ForInStmt(VariableStmt(Raw("k"), Absent, FALSE), argument("b"),
         BlockStmt(<<ExprStmt(pushCall(Identifier("keys", "vartop"),
                                       Identifier("k", "var")))>>)),
       ReturnStmt(Identifier("keys", "vartop"))>>,
     \* await none(input); await both(input); return 1;
     <<called("none"), called("both"), ReturnStmt(NumberLiteralExpr(1))>>
  >>
MorePrograms ==
  {[fam |-> "more", n |-> n, s |-> <<>>] : n \in 1..Len(MoreBodies)}

Programs == FixedPrograms \cup ChainPrograms \cup StoredPrograms
            \cup ObjectPrograms \cup PathPrograms
            \cup CallPrograms \cup IllegalPrograms \cup PatternPrograms
            \cup MorePrograms

\* the statements of the body of the function a descriptor names
body(d) ==
  IF d.fam = "fixed" THEN FixedBodies[d.n]
  ELSE IF d.fam = "chain" THEN chainBody(d)
  ELSE IF d.fam = "stored" THEN storedBody(d)
  ELSE IF d.fam = "object" THEN objectBody(d)
  ELSE IF d.fam = "call" THEN callBody(d)
  ELSE IF d.fam = "illegal" THEN illegalBody(d)
  ELSE IF d.fam = "pattern" THEN patternBody(d)
  ELSE IF d.fam = "more" THEN MoreBodies[d.n]
  ELSE pathBody(d)

\* the functions the runtime is handed: their templates use only the
\* directives and methods the interpreter implements
RunCallbacks == {1, 2, 3}
RunTerminals == {0, 3, 4}
RunFixed == {1, 2, 3, 5}
Executable ==
  {d \in ChainPrograms :
     /\ d.n \in RunTerminals
     /\ Len(d.s) <= 1
     /\ \A i \in 1..Len(d.s) : d.s[i] \in RunCallbacks}
  \cup {d \in FixedPrograms : d.n \in RunFixed}
  \cup {d \in MorePrograms : d.n = 10}

\* the arguments of an invocation
MaxLen == 3
MaxVal == 3
Lists == UNION {[1..k -> 1..MaxVal] : k \in 0..MaxLen}
Keys == <<"a", "c", "d">>
\* an object over Keys: m[i] = 0 leaves key i out
RECURSIVE pairsOf(_, _)
pairsOf(m, i) ==
  IF i > Len(Keys) THEN <<>>
  ELSE IF m[i] = 0 THEN pairsOf(m, i + 1)
  ELSE <<<<Keys[i], IntV(m[i])>>>> \o pairsOf(m, i + 1)
Objects == {pairsOf(m, 1) : m \in [1..Len(Keys) -> 0..MaxVal]}
listValue(l) == ListV([i \in 1..Len(l) |-> IntV(l[i])])
\* what the left operand of `??` is handed: nothing, the two booleans,
\* numbers, a string
Scalars ==
  {NullV, BoolV(FALSE), BoolV(TRUE), StrV("a")} \cup {IntV(k) : k \in 0..MaxVal}
Arguments(d) ==
  IF d.fam = "more"
  THEN {[name |-> "context.arguments.a", value |-> v] : v \in Scalars}
  ELSE IF d.fam = "fixed" /\ d.n = 3
  THEN {[name |-> "context.arguments.b", value |-> MapV(o)] : o \in Objects}
  ELSE {[name |-> "context.arguments.list", value |-> listValue(l)] :
          l \in Lists}

(***************************************************************************)
(* The state: one compiler instance compiling one function, and one run    *)
(* of the template it produced.                                            *)
(***************************************************************************)
VARIABLES
  prog,          \* the function being compiled
  dialect,       \* "appsync": the templating dialect; "api": API Gateway
  location,      \* APIGatewayVTL.location
  statements,    \* VTL.statements
  varIt,         \* VTL.varIt
  temps,         \* the names newLocalVarName has returned, in order
  integration,   \* APIGatewayVTL.integration
  err,           \* the error raised out of eval, if any
  jsonCalls,     \* calls of json() so far
  requests,      \* calls of renderRequest() so far
  pc,            \* the statement of the body that eval reaches next
  phase,         \* "compiling", "failed", "compiled"
  template,      \* the text toVTL() returned
  arguments,     \* the argument the run was invoked with
  lines,         \* the lines of the template being run
  env,           \* the variables of the run
  ip,            \* the line the run reaches next
  stack,         \* the blocks the run is inside of
  status,        \* "idle", "running", "returned", "error", "finished",
                 \* "invalid"
  result,        \* the value yielded or the message raised
  count          \* how often each line has run

compilerVars == <<prog, dialect, location, statements, varIt, temps,
                  integration, err, jsonCalls, requests, pc, phase, template>>
runVars == <<arguments, lines, env, ip, stack, status, result, count>>

VARIABLES
  subject,       \* the integration a wrapper is constructed from
  wrapper,       \* the IntegrationImpl constructed, NotYet before
  accessed,      \* the backend accessed and what the access gave
  pool           \* the compiler instances of one method or one api

dispatchVars == <<subject, wrapper, accessed>>
vars == <<compilerVars, runVars, dispatchVars, pool>>

NotYet == [err |-> "not yet"]
\* no wrapper and no pool of instances is in use
NoDispatch == subject = NoIntegration /\ wrapper = NotYet /\ accessed = NotYet
NoPool == pool = <<>>


\* the instance as the walker's operators take it
this ==
  [statements |-> statements, varIt |-> varIt, out |-> Undef, err |-> err,
   dialect |-> dialect, location |-> location, integration |-> integration,
   jsonCalls |-> jsonCalls, requests |-> requests, temps |-> temps]

Init ==
  /\ prog \in Programs
  /\ dialect \in {"appsync", "api"}
  /\ location \in {"request", "response"}
  /\ dialect = "appsync" => location = "request"
  /\ statements = <<>>
  /\ varIt = 0
  /\ temps = <<>>
  /\ integration = Undef
  /\ err = NoError
  /\ jsonCalls = 0
  /\ requests = 0
  /\ pc = 1
  /\ phase = "compiling"
  /\ template = ""
  /\ arguments = [name |-> "", value |-> NullV]
  /\ lines = <<>>
  /\ env = <<>>
  /\ ip = 0
  /\ stack = <<>>
  /\ status = "idle"
  /\ result = NullV
  /\ count = <<>>
  /\ NoDispatch
  /\ NoPool

\* the instance after a call of eval
Emitted(s1) ==
  /\ statements' = s1.statements
  /\ varIt' = s1.varIt
  /\ temps' = s1.temps
  /\ integration' = s1.integration
  /\ err' = s1.err
  /\ jsonCalls' = s1.jsonCalls
  /\ requests' = s1.requests
  /\ phase' = IF s1.err # NoError THEN "failed" ELSE "compiling"

\* one round of the loop of eval over the statements of the body
EvalStatement ==
  /\ phase = "compiling"
  /\ pc <= Len(body(prog))
  /\ Emitted(eval(this, body(prog)[pc], Undef))
  /\ pc' = pc + 1
  /\ UNCHANGED <<prog, dialect, location, template>>
  /\ UNCHANGED <<runVars, dispatchVars, pool>>

\* toVTL()
ToVTL ==
  /\ phase = "compiling"
  /\ pc > Len(body(prog))
  /\ template' = join(statements, "\n")
  /\ phase' = "compiled"
  /\ UNCHANGED <<prog, dialect, location, statements, varIt, temps,
                 integration, err, jsonCalls, requests, pc>>
  /\ UNCHANGED <<runVars, dispatchVars, pool>>

\* the resolver is invoked: the runtime starts on the template
Invoke ==
  /\ phase = "compiled"
  /\ status = "idle"
  /\ dialect = "appsync"
  /\ prog \in Executable
  /\ \E a \in Arguments(prog) :
       /\ arguments' = a
       /\ env' = bind(<<>>, a.name, a.value)
  /\ lines' = linesOf(template)
  /\ count' = [i \in 1..Len(linesOf(template)) |-> 0]
  /\ ip' = 1
  /\ stack' = <<>>
  /\ status' = "running"
  /\ result' = NullV
  /\ UNCHANGED <<compilerVars, dispatchVars, pool>>

\* the run as the interpreter's operators take it
run ==
  [env |-> env, ip |-> ip, stack |-> stack, status |-> status,
   result |-> result]
Resumed(rt) ==
  /\ env' = rt.env
  /\ ip' = rt.ip
  /\ stack' = rt.stack
  /\ status' = rt.status
  /\ result' = rt.result

\* the runtime executes the line it has reached
Step ==
  /\ status = "running"
  /\ IF ip > Len(lines)
     THEN /\ status' = "finished"
          /\ UNCHANGED <<env, ip, stack, result, count>>
     ELSE /\ Resumed(step(run, lines))
          /\ count' = [count EXCEPT ![ip] = @ + 1]
  /\ UNCHANGED <<arguments, lines>>
  /\ UNCHANGED <<compilerVars, dispatchVars, pool>>

Next == EvalStatement \/ ToVTL \/ Invoke \/ Step

Spec == Init /\ [][Next]_vars

(***************************************************************************)
(* Properties.                                                             *)
(***************************************************************************)
\* text helpers
endsWith(s, suffix) ==
  /\ Len(s) >= Len(suffix)
  /\ SubSeq(s, Len(s) - Len(suffix) + 1, Len(s)) = suffix
contains(s, part) ==
  \E i \in 1..(Len(s) - Len(part) + 1) : SubSeq(s, i, i + Len(part) - 1) = part
\* the indices of the lines of the buffer that start with prefix
linesWith(prefix) ==
  {i \in 1..Len(statements) : startsWith(statements[i], prefix)}
\* the greatest member of a set of naturals, 0 for the empty set
greatest(S) == IF S = {} THEN 0 ELSE CHOOSE n \in S : \A k \in S : k <= n
least(S) == IF S = {} THEN 0 ELSE CHOOSE n \in S : \A k \in S : n <= k

isChain(d) == d.fam \in {"chain", "stored"}
\* the rendering of context.arguments.list by the instance's dialect
listRef == eval(NewVTL(dialect, location), argument("list"), Undef).out
\* the element binding of a callback of a map stage
elementRef(code) == paramRef(MapCallbacks[code], 1)
\* a line that stops the template and yields: the #return directive, or,
\* for API Gateway, text that is no directive of the walker
yields(line) ==
  \/ startsWith(line, "#return(")
  \/ contains(line, "\n")
  \/ ~(startsWith(line, "#") \/ startsWith(line, "$util.qr("))

\* the callbacks of MapCallbacks that bind the element, leave the array
\* parameter out and hold no loop of their own
Plain == {1, 2, 3, 6, 7}

C2_ReturnsToSlot ==
  (phase = "compiled" /\ isChain(prog))
  => \A i \in 1..Len(statements) :
       yields(statements[i]) => i > greatest(linesWith("#end"))

\* C3: list.push("x"); return list compiles to one call on the rendering
\* of list, the call is add, its argument is 'x', and the yield follows.
C3_PushIsAdd ==
  (/\ phase = "compiled" /\ dialect = "appsync"
   /\ prog = [fam |-> "fixed", n |-> 1, s |-> <<>>])
  => /\ statements[1] = "$util.qr(" \o listRef \o ".add('x'))"
     /\ linesWith("$util.qr(") = {1}
     /\ statements[Len(statements)] = "#return($context.stash.return__val)"
     /\ statements[2] = "#set($context.stash.return__val = " \o listRef \o ")"

\* the list the run was invoked with, as numbers
given == [i \in 1..Len(arguments.value.v) |-> arguments.value.v[i].v]
RECURSIVE total(_)
total(l) == IF Len(l) = 0 THEN 0 ELSE Head(l) + total(Tail(l))
over == status \notin {"idle", "running"}
\* how often the lines of the template that hold part have run
RECURSIVE runsFrom(_, _)
runsFrom(part, i) ==
  IF i > Len(lines) THEN 0
  ELSE (IF contains(lines[i], part) THEN count[i] ELSE 0)
       + runsFrom(part, i + 1)
reduces(d, n) == d.fam = "chain" /\ d.n = n /\ d.s = <<>>
emptyMessage == "Reduce of empty array with no initial value"

\* C4: list.reduce((acc, x) => acc + x) yields the sum of a list that is
\* not empty; the first element seeds the accumulator once and the body
\* runs once for every later element. With the initial value 0 it yields
\* the sum again and the body runs once for every element.
C4_ReduceSums ==
  /\ (reduces(prog, 3) /\ over /\ Len(given) > 0)
     => /\ status = "returned"
        /\ result = IntV(total(given))
        /\ runsFrom("#set($v1 = $x)", 1) = 1
        /\ runsFrom("$acc + $x", 1) = Len(given) - 1
  /\ (reduces(prog, 4) /\ over)
     => /\ status = "returned"
        /\ result = IntV(total(given))
        /\ runsFrom("$acc + $x", 1) = Len(given)
C4_Reduced ==
  /\ reduces(prog, 3) /\ status = "returned"
  /\ given = <<1, 2, 3>> /\ result = IntV(6)
  /\ runsFrom("$acc + $x", 1) = 2

\* a reduce call the walker lowers: one that is returned is handed to
\* exprToJson by API Gateway's ReturnStmt
lowered(d) ==
  /\ isChain(d) /\ d.n >= 3
  /\ d.fam = "chain" => dialect = "appsync"
\* the guard stands at g, directly before the header of the loop over the
\* list it tests
guardAt(g) ==
  /\ g + 3 <= Len(statements)
  /\ startsWith(statements[g], "#if(")
  /\ endsWith(statements[g], ".isEmpty())")
  /\ statements[g + 1] = "$util.error('" \o emptyMessage \o "')"
  /\ statements[g + 2] = "#end"
  /\ startsWith(statements[g + 3], "#foreach(")
  /\ endsWith(statements[g + 3],
       " in " \o slice2(statements[g], 4, Len(statements[g]) - 11) \o ")")
raisesEmpty == {i \in 1..Len(statements) : contains(statements[i],
      emptyMessage)}

destructures(d) == d = [fam |-> "fixed", n |-> 3, s |-> <<>>]
\* the entries of an object whose key is not k
without(pairs, k) ==
  LET kept(p) == p[1] # k IN SelectSeq(pairs, kept)

RECURSIVE ascending(_)
ascending(S) ==
  IF S = {} THEN <<>> ELSE <<least(S)>> \o ascending(S \ {least(S)})
\* an object literal with a spread that the walker lowers; a returned
\* literal is handed to exprToJson by API Gateway's ReturnStmt
spreads(d) ==
  /\ d.fam = "object"
  /\ d.n = 2 \/ dialect = "appsync"
  /\ \E i \in 1..Len(d.s) : Properties[d.s[i]].kind = "SpreadAssignExpr"
\* what the call on the container for a property of Properties starts with
callOf(code) ==
  CASE code = 1 -> "$util.qr($v1.put('a', 1))"
    [] code = 2 -> "$util.qr($v1.put('b', 'x'))"
    [] code = 3 -> "$util.qr($v1.put('c', $v"
    [] code = 6 -> "$util.qr($v1.put('d', $v"
    [] OTHER -> "$util.qr($v1.putAll("
\* the statements that compute the value of a property of Properties
needs(code) == CASE code = 3 -> 1 [] code = 6 -> 2 [] OTHER -> 0

\* C7: an object literal with a spread compiles to the allocation of {} in
\* the fresh temporary $v1, then one put per property assignment and one
\* putAll per spread in the order of the source, each directly after the
\* statements that compute its value, and $v1 is what is handed on.
C7_LiteralInOrder ==
  (phase = "compiled" /\ spreads(prog))
  => LET calls == ascending(linesWith("$util.qr($v1.put"))
         at(i) == IF i = 0 THEN 1 ELSE calls[i]
     IN /\ statements[1] = "#set($v1 = {})"
        /\ linesWith("#set($v1 = ") = {1}
        /\ Len(calls) = Len(prog.s)
        /\ \A i \in 1..Len(prog.s) :
             LET code == prog.s[i]
                 call == statements[calls[i]]
                 value == slice2(call, Len("$util.qr($v1.put('c', "),
                                 Len(call) - 2)
             IN /\ startsWith(call, callOf(code))
                /\ at(i) - at(i - 1) - 1 = needs(code)
                /\ needs(code) > 0
                   => /\ startsWith(statements[calls[i] - needs(code)],
                                    "#set(" \o value \o " = ")
                      /\ endsWith(call, ", " \o value \o "))")
        /\ Len(statements) > at(Len(prog.s))
        /\ startsWith(statements[at(Len(prog.s)) + 1], "#set(")
        /\ endsWith(statements[at(Len(prog.s)) + 1], " = $v1)")
C7_SpreadBetween ==
  /\ phase = "compiled" /\ dialect = "appsync"
  /\ prog = [fam |-> "object", n |-> 1, s |-> <<1, 4, 3>>]
  /\ statements[3] = "$util.qr($v1.putAll($context.arguments.obj))"
  /\ statements[5] = "$util.qr($v1.put('c', $v2))"

\* C8: return p, p a parameter of the function, compiles to one line, which
\* refers to the payload when p is the first parameter and to the context
\* when p is the second.
C8_ParameterRoots ==
  (/\ phase = "compiled" /\ dialect = "api"
   /\ prog.fam = "path" /\ prog.s = <<>> /\ prog.n \in {1, 2})
  => /\ Len(statements) = 1
     /\ prog.n = 1 => statements[1] = "$input.json('$')"
     /\ prog.n = 2 => /\ contains(statements[1], "$context")
                      /\ ~contains(statements[1], "$input")

\* a chain of property accesses and accesses of an element by a numeric
\* literal
pure(s) == \A i \in 1..Len(s) : s[i] \in {1, 2, 3}
\* the JSON path of such a chain from the payload, whose data is the
\* payload itself
RECURSIVE pathOf(_, _)
pathOf(s, i) ==
  IF i > Len(s) THEN ""
  ELSE (CASE s[i] = 1 -> ".a"
          [] s[i] = 2 -> "[0]"
          [] s[i] = 3 -> IF i = 1 THEN "" ELSE ".data")
       \o pathOf(s, i + 1)
done == phase = "failed" \/ pc > Len(body(prog))

\* C9: for API Gateway, a returned chain of property accesses and accesses
\* by a numeric literal from the payload parameter compiles to the one line
\* $input.json('<path>'): no temporary is taken and json() is not called.
C9_PathOnly ==
  (/\ dialect = "api" /\ prog.fam = "path" /\ prog.n = 1
   /\ pure(prog.s) /\ done)
  => /\ phase # "failed"
     /\ statements = <<"$input.json('$" \o pathOf(prog.s, 1) \o "')">>
     /\ varIt = 0
     /\ jsonCalls = 0
C9_PathRendered ==
  /\ phase = "compiled" /\ dialect = "api"
  /\ prog = [fam |-> "path", n |-> 1, s |-> <<1, 2, 3>>]
  /\ statements = <<"$input.json('$.a[0].data')">>

\* a returned expression that is no path from the payload: an access on a
\* local variable, an access by an index that is no numeric literal, a
\* binary expression
pathless(d) ==
  /\ d.fam = "path"
  /\ \/ d.n = 3 /\ Len(d.s) = 1
     \/ d.n = 1 /\ Len(d.s) = 1 /\ d.s[1] \in {4, 5}
     \/ d.n = 4

\* C10: for API Gateway, a returned expression that is no path from the
\* payload compiles: it is rendered by the walker and handed to json(),
\* whose text is the line emitted last.
C10_FallsBack ==
  (dialect = "api" /\ pathless(prog) /\ done)
  => /\ phase # "failed"
     /\ jsonCalls = 1
     /\ contains(statements[Len(statements)], "#if(")

\* a function whose body calls an integration of Referenced at a place
\* where the promise of the call is legal
calls(d) == d.fam = "call" /\ d.n \in 1..3 /\ d.s[1] \in {1, 2, 3, 6}
cannotCall ==
  "SynthError: API_gateway_response_mapping_template_cannot_call_integration"

\* C11: an API Gateway instance for the response that reaches a call of an
\* integration fails with
\* API_gateway_response_mapping_template_cannot_call_integration: no
\* request has been rendered and no integration is recorded. An instance
\* for the request does not raise this error, and renders the request and
\* records the integration when the integration has the handler.
C11_ResponseCannotCall ==
  (dialect = "api" /\ calls(prog) /\ done)
  => /\ location = "response"
        => /\ phase = "failed" /\ err = cannotCall
           /\ requests = 0
           /\ integration = Undef
     /\ location = "request"
        => /\ err # cannotCall
           /\ prog.n = 1
              => /\ phase # "failed"
                 /\ requests = 1
                 /\ integration = ref(Wrapped[1].expr).kind
C11_Refused ==
  /\ dialect = "api" /\ location = "response"
  /\ prog = [fam |-> "call", n |-> 1, s |-> <<2>>]
  /\ phase = "failed" /\ err = cannotCall /\ requests = 0

\* the instance after eval of the statements b[i], b[i + 1], ... in turn,
\* up to the first that throws
RECURSIVE alone(_, _, _)
alone(st, b, i) ==
  IF i > Len(b) \/ failed(st) THEN st
  ELSE alone(eval(st, b[i], Undef), b, i + 1)
\* the body of a function of CallPrograms with the inner expression in the
\* place of the promise
unwrapped(d) ==
  LET e == Wrapped[d.n]
  IN CASE d.s[1] = 2 -> <<ReturnStmt(AwaitExpr(e))>>
       [] d.s[1] = 3 -> <<ReturnStmt(e)>>
       [] d.s[1] = 6 -> <<VariableStmt(Raw("r"), AwaitExpr(e), TRUE),
                           ReturnStmt(Identifier("r", "vartop"))>>
mustAwait ==
  "SynthError: Integration_must_be_immediately_awaited_or_returned"

\* C12: in both dialects, a promise whose parent is a variable declaration
\* or an expression statement fails the compilation with
\* Integration_must_be_immediately_awaited_or_returned; a promise under an
\* await or a return never raises this error, and the compilation ends as
\* that of the same body with the inner expression in its place.
C12_PromiseParent ==
  (prog.fam = "call" /\ done)
  => /\ prog.s[1] \in {4, 5} => phase = "failed" /\ err = mustAwait
     /\ prog.s[1] \in {2, 3, 6}
        => LET r == alone(NewVTL(dialect, location), unwrapped(prog), 1)
           IN /\ err # mustAwait
              /\ err = r.err
              /\ statements = r.statements
              /\ varIt = r.varIt
              /\ requests = r.requests
C12_NotAwaited ==
  /\ dialect = "appsync"
  /\ prog = [fam |-> "call", n |-> 1, s |-> <<4>>]
  /\ phase = "failed" /\ err = mustAwait /\ statements = <<>>

\* the constructs of Illegal without a branch of their own in eval: try,
\* while, do-while, typeof, continue, catch
Unlowered == 1..6
cannotEvaluateKind(kind) == "Error: cannot evaluate Expr kind: '" \o kind \o "'"

\* C13: a body in which the walker reaches a try, a catch clause, a while, a
\* do-while, a typeof or a continue, at the top level or inside a
\* conditional, a loop or a map callback, never compiles to the end: once
\* the walker is past the construct the compile call has thrown, and it is
\* never in the phase compiled.
C13_NoLowering ==
  (prog.fam = "illegal" /\ prog.n \in Unlowered)
  => /\ phase \in {"compiling", "failed"}
     /\ pc > 1 => /\ phase = "failed"
                  /\ \E k \in {"TryStmt", "CatchClause", "WhileStmt",
                               "DoStmt", "TypeOfExpr", "ContinueStmt"} :
                       err = cannotEvaluateKind(k)
C13_WhileInLoop ==
  /\ dialect = "appsync"
  /\ prog = [fam |-> "illegal", n |-> 2, s |-> <<2>>]
  /\ phase = "failed"
  /\ err = cannotEvaluateKind("WhileStmt")
  /\ Len(statements) = 1

\* C14: a body holding a Throw statement never compiles to finished output:
\* the compile call throws at the statement, and no template is made from
\* which the throw is missing.
C14_ThrowAborts ==
  (prog.fam = "illegal" /\ prog.n = 7)
  => /\ phase # "compiled"
     /\ pc > 1 => phase = "failed"

\* C15: a push call of more than one argument aborts the compilation, and no
\* mutation call is emitted for it.
C15_PushOfMany ==
  (prog.fam = "illegal" /\ prog.n = 9)
  => /\ \A i \in 1..Len(statements) : ~contains(statements[i], ".addAll(")
     /\ pc > 1 => phase = "failed"

\* C16: every error the compile call throws for a construct without a
\* lowering (new, try, catch, while, do-while, typeof, continue, a parameter,
\* a reference or a property assignment reaching eval, a third parameter
\* dereferenced, an expression without a JSON path) is a SynthError with a
\* code.
C16_TypedErrors ==
  (/\ prog.fam = "illegal"
   /\ prog.n \in Unlowered \cup {8, 10, 11, 12, 13, 14, 16}
   /\ phase = "failed")
  => startsWith(err, "SynthError: ")

\* C19: within one instance the temp names are $v1, $v2, ... in the order of
\* their allocation: the n-th name returned is $v<n>, the counter starts at
\* 0 and equals the number of names returned, any two names returned are
\* distinct, and no step lowers the counter or takes back a name.
C19_FreshTemps ==
  /\ [](/\ Len(temps) = varIt
        /\ \A i \in 1..Len(temps) : temps[i] = "$v" \o ToString(i)
        /\ \A i, j \in 1..Len(temps) : i # j => temps[i] # temps[j])
  /\ [][/\ varIt' >= varIt
        /\ Len(temps') >= Len(temps)
        /\ SubSeq(temps', 1, Len(temps)) = temps]_vars
C19_SeveralTemps ==
  /\ varIt >= 3
  /\ temps[3] = "$v3"
  /\ phase = "compiled"

(***************************************************************************)
(* The dispatch wrapper on its own: an integration, or none, is wrapped    *)
(* and a backend handler is accessed through the wrapper.                  *)
(***************************************************************************)
Kinds == {"Function", "Table"}
\* the kind of the context an asl handler is asked for
AslContexts == {"Amazon States Language"}
\* every integration over Kinds: any handlers defined, with the hook or not
Integrations ==
  {Integration(k, hs, h) :
     k \in Kinds, hs \in SUBSET {Backends[n] : n \in 1..Len(Backends)},
     h \in BOOLEAN}

\* the compiler and the runtime stay out of the way
Parked ==
  /\ prog = [fam |-> "call", n |-> 1, s |-> <<1>>]
  /\ dialect = "appsync" /\ location = "request"
  /\ statements = <<>> /\ varIt = 0 /\ temps = <<>>
  /\ integration = Undef /\ err = NoError
  /\ jsonCalls = 0 /\ requests = 0
  /\ pc = 1 /\ phase = "parked" /\ template = ""
  /\ arguments = [name |-> "", value |-> NullV]
  /\ lines = <<>> /\ env = <<>> /\ ip = 0 /\ stack = <<>>
  /\ status = "idle" /\ result = NullV /\ count = <<>>

DispatchInit ==
  /\ subject \in Integrations \cup {NoIntegration}
  /\ wrapper = NotYet
  /\ accessed = NotYet
  /\ NoPool
  /\ Parked

\* new IntegrationImpl(subject)
Construct ==
  /\ wrapper = NotYet
  /\ wrapper' = IntegrationImpl(subject)
  /\ UNCHANGED <<subject, accessed, pool, compilerVars, runVars>>

\* what the member of the wrapper named after a backend gives
get(impl, backend, contextKind) ==
  CASE backend = "appSyncVtl" -> appSyncVtl(impl)
    [] backend = "apiGWVtl" -> apiGWVtl(impl)
    [] backend = "asl" -> asl(impl, contextKind)
    [] backend = "eventBus" -> eventBus(impl)
    [] backend = "native" -> native(impl)

\* a context reads a handler off the wrapper
Access ==
  /\ wrapper # NotYet
  /\ wrapper.err = NoError
  /\ accessed = NotYet
  /\ \E n \in 1..Len(Backends) : \E c \in AslContexts :
       accessed' = [backend |-> Backends[n], contextKind |-> c,
                    outcome |-> get(wrapper, Backends[n], c)]
  /\ UNCHANGED <<subject, wrapper, pool, compilerVars, runVars>>

DispatchNext == Construct \/ Access

DispatchSpec == DispatchInit /\ [][DispatchNext]_vars

\* the kind of context each backend's member names when the handler is
\* missing
contextOf(a) ==
  CASE a.backend \in {"appSyncVtl", "apiGWVtl"} -> "Velocity Template"
    [] a.backend = "asl" -> a.contextKind
    [] a.backend = "eventBus" -> "EventBus"
    [] a.backend = "native" -> "Function"

C20_AbsentRaises ==
  /\ subject = NoIntegration
  /\ wrapper # NotYet
  /\ wrapper.err # NoError

(***************************************************************************)
(* Several compiler instances side by side: the response, request and      *)
(* error templates of one API Gateway method, or three resolvers of one    *)
(* AppSync api.  Each instance walks the body of its own function, one     *)
(* statement at a step, and the steps of the instances interleave.         *)
(***************************************************************************)
Instances == 1..3
Owners == {"AwsMethod", "AppsyncResolver"}
\* the functions handed to the instances
PoolPrograms ==
  {[fam |-> "illegal", n |-> 15, s |-> <<1>>],
   [fam |-> "illegal", n |-> 15, s |-> <<3>>],
   [fam |-> "illegal", n |-> 2, s |-> <<1>>],
   [fam |-> "call", n |-> 1, s |-> <<6>>],
   [fam |-> "chain", n |-> 5, s |-> <<1>>]}
dialectOf(owner) == IF owner = "AwsMethod" THEN "api" ELSE "appsync"
\* an AwsMethod makes its response template, its request template and the
\* template of an error response, in this order
locationOf(owner, id) ==
  IF owner = "AwsMethod" THEN <<"response", "request", "response">>[id]
  ELSE "request"

\* construct, with the counter going on from the instances made before
constructNumbered(owner, id) ==
  [NewVTL(dialectOf(owner), locationOf(owner, id)) EXCEPT !.varIt = id - 1]
\* new APIGatewayVTL(role, location) / new AppsyncVTL()
construct(owner, id) == NewVTL(dialectOf(owner), locationOf(owner, id))

PoolInit ==
  /\ \E owner \in Owners : \E trees \in [Instances -> PoolPrograms] :
       pool = [id \in Instances |->
                 [tree |-> trees[id], vtl |-> construct(owner, id), pc |-> 1,
                  phase |-> "compiling", template |-> ""]]
  /\ NoDispatch
  /\ Parked

\* written, with varIt a static member that all instances share
writtenShared(all, id, s1) ==
  [k \in DOMAIN all |->
     IF k = id
     THEN [all[k] EXCEPT !.vtl = [s1 EXCEPT !.out = Undef], !.pc = @ + 1,
                         !.phase = IF failed(s1) THEN "failed" ELSE @]
     ELSE [all[k] EXCEPT !.vtl.varIt = s1.varIt]]
\* the instances after eval has returned s1 on one of them: statements,
\* varIt and integration are fields of that instance alone
written(all, id, s1) ==
  [all EXCEPT ![id] = [@ EXCEPT !.vtl = [s1 EXCEPT !.out = Undef],
                                !.pc = @ + 1,
                                !.phase = IF failed(s1) THEN "failed" ELSE @]]

\* one instance evaluates the next statement of its body
PoolEval(id) ==
  /\ pool[id].phase = "compiling"
  /\ pool[id].pc <= Len(body(pool[id].tree))
  /\ pool' = written(pool, id,
                     eval(pool[id].vtl, body(pool[id].tree)[pool[id].pc],
                          Undef))
  /\ UNCHANGED <<dispatchVars, compilerVars, runVars>>

\* one instance is asked for its template
PoolToVTL(id) ==
  /\ pool[id].phase = "compiling"
  /\ pool[id].pc > Len(body(pool[id].tree))
  /\ pool' = [pool EXCEPT ![id].template = join(pool[id].vtl.statements, "\n"),
                          ![id].phase = "compiled"]
  /\ UNCHANGED <<dispatchVars, compilerVars, runVars>>

PoolNext == \E id \in Instances : PoolEval(id) \/ PoolToVTL(id)

PoolSpec == PoolInit /\ [][PoolNext]_vars

ended(id) == pool[id].phase \in {"compiled", "failed"}
\* the instance a function leaves behind when it is compiled with nothing
\* else going on
byItself(id) ==
  [alone(NewVTL(pool[id].vtl.dialect, pool[id].vtl.location),
         body(pool[id].tree), 1) EXCEPT !.out = Undef]

stagesOf(d) ==
  [i \in 1..Len(d.s) |-> MapCallbacks[d.s[i]]]
  \o (IF d.n = 0 THEN <<>> ELSE <<Terminals[d.n].fn>>)
\* the stages whose callback declares the array parameter
declaresArray(fn) ==
  \E i \in 1..Len(fn.parameters) : fn.parameters[i].name = "arr"
withArray(d) == {k \in 1..Len(stagesOf(d)) : declaresArray(stagesOf(d)[k])}
\* the collection a line `#set($arr = <collection>)` assigns
assigned(line) == SubSeq(line, Len("#set($arr = ") + 1, Len(line) - 1)
\* the k-th member of a set of naturals, in ascending order
RECURSIVE nth(_, _)
nth(S, k) == IF k = 1 THEN least(S) ELSE nth(S \ {least(S)}, k - 1)

\* C21: in the template of a chain every stage whose callback declares the
\* array parameter has one line assigning $arr.  The collection assigned is
\* the one the nearest loop header before it iterates, only the index
\* assignment may stand between the two, and no other header iterates that
\* collection.  For the first stage of the chain the collection is the
\* rendering of the list; for a later stage it is a list of the walker's
\* own, filled by the stages before it in a loop that is closed before the
\* header.
C21_ArrayNotFused ==
  (phase = "compiled" /\ isChain(prog))
  => LET arrs == linesWith("#set($arr = ")
         heads == linesWith("#foreach(")
         stages == withArray(prog)
     IN /\ Cardinality(arrs) = Cardinality(stages)
        /\ \A k \in 1..Cardinality(stages) :
             LET a == nth(arrs, k)
                 stage == nth(stages, k)
                 h == greatest({i \in heads : i < a})
                 list == assigned(statements[a])
             IN /\ h > 0
                /\ endsWith(statements[h], " in " \o list \o ")")
                /\ {i \in heads : endsWith(statements[i],
                                           " in " \o list \o ")")} = {h}
                /\ \A i \in (h + 1)..(a - 1) :
                     endsWith(statements[i], " = $foreach.index)")
                /\ stage = 1 => list = listRef
                /\ stage > 1
                   => /\ startsWith(list, "$v")
                      /\ \E f \in linesWith("$util.qr(" \o list \o ".add(") :
                         \E e \in linesWith("#end") : f < e /\ e < h
C21_AfterMap ==
  /\ phase = "compiled" /\ dialect = "appsync"
  /\ prog = [fam |-> "chain", n |-> 9, s |-> <<1, 4>>]
  /\ Cardinality(linesWith("#set($arr = ")) = 2
  /\ Cardinality(linesWith("#foreach(")) = 3

\* the property name of a non-rest element of an object pattern
keyOf(binding) ==
  IF binding.propertyName.kind = "StringLiteralExpr"
  THEN binding.propertyName.value
  ELSE IF binding.propertyName.kind = "Identifier"
    THEN binding.propertyName.name
  ELSE binding.name.name
\* the property names of the non-rest elements of a pattern, in order
keysOf(pattern) ==
  LET named == SelectSeq(pattern.bindings,
                         LAMBDA e : e.kind # "Absent" /\ ~e.rest)
  IN [i \in 1..Len(named) |-> keyOf(named[i])]
\* the patterns of Patterns that are object patterns with a rest element
ObjectRests == {1, 2}

\* C22: for an object pattern with a rest element one exclusion list is
\* emitted, and it holds the property name of every non-rest element,
\* quoted once, whether the property is named by a string literal or by an
\* identifier.
C22_ExclusionList ==
  (phase = "compiled" /\ prog.fam = "pattern" /\ prog.n \in ObjectRests)
  => LET keys == keysOf(Patterns[prog.n])
         quoted == [i \in 1..Len(keys) |-> "'" \o keys[i] \o "'"]
         lists == {i \in 1..Len(statements) :
                     contains(statements[i], " = [")}
     IN /\ Cardinality(lists) = 1
        /\ \A i \in lists :
             endsWith(statements[i], " = [" \o join(quoted, ",") \o "])")


\* the functions that call a method of the identifier Promise
usesPromise(d) == d.fam = "more" /\ d.n \in {1, 2}
unsupportedPromises == "SynthError: Unsupported_Use_of_Promises"
\* C23: in the templating dialect the compilation of a function that calls
\* Promise.all ends with the error Unsupported_Use_of_Promises, and no line
\* of the buffer renders the call.
C23_PromiseMethod ==
  (dialect = "appsync" /\ usesPromise(prog) /\ done)
  => /\ phase = "failed"
     /\ err = unsupportedPromises
     /\ \A i \in 1..Len(statements) : ~contains(statements[i], "$Promise.")

\* the declarations at the top level of the body that the walker has passed:
\* a plain name with an initializer
declared ==
  {i \in 1..Len(body(prog)) :
     /\ i < pc
     /\ body(prog)[i].kind = "VariableStmt"
     /\ body(prog)[i].topLevel
     /\ body(prog)[i].name.kind = "string"
     /\ body(prog)[i].expr.kind # "Absent"}
\* the reference an identifier that resolves to declaration i renders as
readAs(i) ==
  dereference(NewVTL(dialect, location),
              Identifier(body(prog)[i].name.value, "vartop")).out
\* C24: in each dialect, the assignment emitted for a declaration at the top
\* level writes to the reference that an identifier resolving to the
\* declaration is rendered as.
C24_ReadWhereWritten ==
  phase # "failed"
  => \A i \in declared : linesWith("#set(" \o readAs(i) \o " = ") # {}

\* C25: every loop header in the buffer binds a name that starts with `$`.
C25_LoopVariable ==
  \A i \in linesWith("#foreach(") : startsWith(statements[i], "#foreach($")

\* the block directive that the text has at position i, if any; #elseif
\* counts as an #else
at(text, i, word) ==
  /\ i + Len(word) - 1 <= Len(text)
  /\ SubSeq(text, i, i + Len(word) - 1) = word
directiveAt(text, i) ==
  IF at(text, i, "#if(") THEN "if"
  ELSE IF at(text, i, "#foreach(") THEN "foreach"
  ELSE IF at(text, i, "#else") THEN "else"
  ELSE IF at(text, i, "#end") THEN "end"
  ELSE "none"
marks(text) == {i \in 1..Len(text) : directiveAt(text, i) # "none"}
\* the directives at the positions P of the text, in order, are balanced
\* and nested; open holds the blocks open before them, innermost last
RECURSIVE nested(_, _, _)
nested(text, P, open) ==
  IF P = {} THEN open = <<>>
  ELSE
    LET i == least(P)
        d == directiveAt(text, i)
        later == P \ {i}
    IN IF d \in {"if", "foreach"} THEN nested(text, later, Append(open, d))
       ELSE IF d = "else"
         THEN /\ open # <<>>
              /\ open[Len(open)] = "if"
              /\ nested(text, later, open)
       ELSE /\ open # <<>>
            /\ nested(text, later, SubSeq(open, 1, Len(open) - 1))
\* C26: in the template of a compilation that ended without error every
\* #if and #foreach is closed by one later #end, no #end comes without an
\* open block, and every #else stands directly inside an open #if.
C26_Balanced == phase = "compiled" => nested(template, marks(template), <<>>)
\* a conditional whose else branch holds the block of `??` has compiled
C26_NestedBlocks ==
  /\ phase = "compiled"
  /\ dialect = "appsync"
  /\ prog = [fam |-> "more", n |-> 11, s |-> <<>>]
  /\ Cardinality(linesWith("#if(")) = 2
  /\ Cardinality(linesWith("#else")) = 2
  /\ Cardinality(linesWith("#end")) = 2

\* the names a pattern binds, those of nested patterns included
RECURSIVE namesOf(_)
namesOf(pattern) ==
  UNION {IF pattern.bindings[i].kind = "Absent" THEN {}
         ELSE IF pattern.bindings[i].name.kind = "Identifier"
           THEN {pattern.bindings[i].name.name}
         ELSE namesOf(pattern.bindings[i].name) :
           i \in 1..Len(pattern.bindings)}
\* the prefix of the declaration of the pattern, and whether the walker is
\* past that declaration
prefixOf(d) == IF d.s[1] = 0 THEN "$context.stash." ELSE "$"
expanded ==
  prog.fam = "pattern" /\ phase # "failed"
  /\ pc > (IF prog.s[1] = 0 THEN 2 ELSE 1)
\* C27: once a declaration by pattern is expanded, every name the pattern
\* binds, in a rest element and inside one too, is assigned under the
\* prefix of the declaration.
C27_OnePrefix ==
  expanded
  => \A name \in namesOf(Patterns[prog.n]) :
       linesWith("#set(" \o prefixOf(prog) \o name \o " = ") # {}

\* the functions whose statements but the last each call an integration
severalCalls(d) == d.fam = "more" /\ d.n \in {3, 4, 5, 6, 13}
\* the integration that statement i of such a function calls
targetOf(d, i) == ref(body(d)[i].expr.expr.expr.expr)
\* the calls the walker has reached, and those whose request was rendered
reached == {i \in 1..(Len(body(prog)) - 1) : i < pc}
rendered == {i \in reached : targetOf(prog, i).apiGWVtl # Undef}
\* C28: in an API Gateway instance for the request the integration recorded
\* is that of the last call whose request was rendered, and none when there
\* is no such call; a call whose rendering raises does not change it, and
\* no call raises because another was rendered before it.
C28_LastRendered ==
  (dialect = "api" /\ location = "request" /\ severalCalls(prog))
  => /\ integration = IF rendered = {} THEN Undef
                      ELSE targetOf(prog, greatest(rendered)).kind
     /\ requests = Cardinality(rendered)
     /\ rendered = reached => err = NoError
     /\ rendered # reached => phase = "failed"
\* two calls were rendered, and the second is the one recorded
C28_SecondRecorded ==
  /\ dialect = "api" /\ location = "request"
  /\ prog = [fam |-> "more", n |-> 3, s |-> <<>>]
  /\ pc = 3
  /\ requests = 2
  /\ integration = "StepFunction"

\* the functions that update context.arguments.list[context.arguments.n + 1]
\* in place, by `+= 1`, by a prefix `++` and by a postfix `--`
updates(d) == d.fam = "more" /\ d.n \in {7, 8, 9}
\* the lines the operand of the update emits: the temp of its index
ofOperand ==
  {i \in 1..Len(statements) :
     endsWith(statements[i],
              " = " \o eval(NewVTL(dialect, location), argument("n"), Undef).out
              \o " + 1)")}
\* C29: the statement the operand of an update emits is in the buffer at
\* most once.
C29_OperandOnce == updates(prog) => Cardinality(ofOperand) <= 1

\* the function `return context.arguments.a ?? 2;`
nullish(d) == d = [fam |-> "more", n |-> 10, s |-> <<>>]
\* C30: a run of the template of `a ?? 2` yields the value of a when a is
\* neither null nor absent, the boolean false included, and 2 otherwise.
C30_Nullish ==
  (nullish(prog) /\ over)
  => /\ status = "returned"
     /\ result = IF arguments.value.t # "null" THEN arguments.value
                 ELSE IntV(2)
====
